---------------------------- MODULE Spec2Model ----------------------------
(***************************************************************************)
(* TaskWhisper backend: the reminder lifecycle of the Express server.      *)
(*                                                                         *)
(* The Store is the Supabase table `reminders`; the operations are the     *)
(* HTTP handlers POST /api/reminders, /api/reminders/:id/complete,         *)
(* /api/reminders/:id/reschedule, /api/reminders/send-due and              *)
(* /api/send-email.                                                        *)
(*                                                                         *)
(* Time is counted in hours.  A timestamp column that is null holds        *)
(* NoTime; a text column that is null holds NoValue.                       *)
(***************************************************************************)
EXTENDS Integers, Sequences, FiniteSets, TLC

\* ------------------------------------------------------------------------
\* Bounds of the model
\* ------------------------------------------------------------------------

\* at most this many reminders are ever created
MaxReminders == 2

\* the clock is observed up to this hour
MaxTime == 50

\* while the store holds two reminders the clock is observed up to this
\* hour only; a store of more than two is observed at hour 0 only
MaxTimeMany == 25

\* the hours at which the clock is observed: a reminder scheduled for hour 1
\* or 2 is 23h, 24h or 25h old at the hours 25 and 26, and a follow-up sent
\* at hour 25 or 26 is 23h, 24h or 25h old at the hours 49 and 50
Times == {0, 1, 25, 26, 49, 50} \cap (0..MaxTime)

\* the timestamp a client sends as scheduledFor when it creates a reminder
CreateTimes == {1}

\* the timestamp a client sends as scheduledFor when it reschedules one
RescheduleTimes == {2}

\* ------------------------------------------------------------------------
\* Program constants and values
\* ------------------------------------------------------------------------

\* followUpDelay = 24 * 60 * 60 * 1000 ms, in hours
followUpDelay == 24

NoTime == -1

NoValue == "null"

\* the request bodies a client sends to POST /api/reminders:
\* notificationMethods is <<m>> for a given list with the members m, and
\* <<>> when the client gave none (undefined)
CreateInputs ==
  { [email |-> "a@x", phoneNumber |-> NoValue, notificationMethods |-> <<>>],
    [email |-> "a@x", phoneNumber |-> "555-123-4567", notificationMethods |-> <<{"sms"}>>],
    [email |-> "a@x", phoneNumber |-> "555-123-4567", notificationMethods |-> <<{"email", "sms"}>>] }

\* ids a client may name: those the store can hold and one it never holds
RequestIds == 1..(MaxReminders + 1)

VARIABLES
  supabase,      \* TRUE iff the Supabase client was created (not null)
  resend,        \* TRUE iff the Resend client was created (not null)
  twilioClient,  \* TRUE iff the Twilio client was created (not null)
  reminders,     \* the table `reminders`: id -> row
  now,           \* the wall clock, in hours
  lastOp,        \* the request handled last: [name, id, t, again], and
                 \* body in a create
  response,      \* its HTTP response: [status, success, error, results],
                 \* processed in the report of a run, reminder in the
                 \* answer to a create
  log,           \* the per-reminder external calls it made, in order
  phone,         \* the argument of formatPhone, a string of characters
  formatted,     \* what formatPhone returned for it, call after call
  openaiKey,     \* TRUE iff OPENAI_API_KEY is set to a real key
  uploads,       \* the paths of the files in the directory uploads/
  transcribing,  \* the requests to POST /api/transcribe:
                 \* id -> [pc, file, renamedPath, status]; renamedPath
                 \* is <<>> while it is null and <<path>> once assigned
  anthropicKey,  \* TRUE iff ANTHROPIC_API_KEY is set
  responseText,  \* the text the model answers to POST /api/analyze-memo,
                 \* a sequence of chunks
  analyzed,      \* the HTTP response of POST /api/analyze-memo:
                 \* [status, success, error, analysis]; analysis is <<>>
                 \* or <<value>>
  runs           \* the runs of POST /api/reminders/send-due that are taken
                 \* step by step: run -> [pc, t, rows, todo, results, log]

vars == <<supabase, resend, twilioClient, reminders, now, lastOp, response, log,
          phone, formatted, openaiKey, uploads, transcribing,
          anthropicKey, responseText, analyzed, runs>>

config == <<supabase, resend, twilioClient>>

\* the state of the helpers that are modelled on their own; the handlers of
\* the reminder lifecycle leave it alone
phoneVars == <<phone, formatted>>

transcribeVars == <<openaiKey, uploads, transcribing>>

extractVars == <<anthropicKey, responseText, analyzed>>

aux == <<phoneVars, transcribeVars, extractVars, runs>>

\* the state of the reminder lifecycle
core == <<supabase, resend, twilioClient, reminders, now, lastOp, response, log>>

\* at most this many audio files are uploaded
MaxUploads == 3

\* the requests to POST /api/transcribe
Uploads == 1..MaxUploads

\* no request to POST /api/transcribe has arrived, uploads/ is empty
TranscribeIdle ==
  /\ openaiKey = FALSE
  /\ uploads = {}
  /\ transcribing =
       [r \in Uploads |-> [pc |-> "idle", file |-> FALSE,
                          renamedPath |-> <<>>, status |-> 0]]

\* at most this many runs of POST /api/reminders/send-due overlap
MaxRuns == 2

Runs == 1..MaxRuns

\* a run that has not started
RunIdle ==
  [pc |-> "idle", t |-> -1, rows |-> <<>>, todo |-> <<>>,
   results |-> <<>>, log |-> <<>>]

\* no run is taken step by step
OverlapIdle == runs = [r \in Runs |-> RunIdle]

\* no request to POST /api/analyze-memo has arrived
ExtractIdle ==
  /\ anthropicKey = FALSE
  /\ responseText = <<>>
  /\ analyzed = <<>>

\* formatPhone has not been called
PhoneIdle ==
  /\ phone = <<>>
  /\ formatted = <<>>

\* ------------------------------------------------------------------------
\* Responses
\* ------------------------------------------------------------------------

IsSentRecord(r) == r.status \in {"sent", "followup_sent"}

Ok(results) ==
  [status |-> 200, success |-> TRUE, error |-> NoValue, results |-> results]

Fail(message) ==
  [status |-> 500, success |-> FALSE, error |-> message, results |-> <<>>]

\* a report that counts the deliveries only
ReportCountsSent(results) ==
  [status |-> 200, success |-> TRUE, error |-> NoValue, results |-> results,
   processed |-> Len(SelectSeq(results, IsSentRecord))]

\* res.json({ success: true, processed: results.length, results })
Report(results) ==
  [status |-> 200, success |-> TRUE, error |-> NoValue, results |-> results,
   processed |-> Len(results)]

\* a request; again tells that it repeats the request handled just before
\* it, which succeeded
Op(name, id, t) == [name |-> name, id |-> id, t |-> t, again |-> FALSE]

Repeated(name, id, t) ==
  [name |-> name, id |-> id, t |-> t,
   again |-> (lastOp.name = name /\ lastOp.id = id /\ lastOp.t = t
                /\ response.success)]

\* ------------------------------------------------------------------------
\* POST /api/reminders
\*
\* In the three single-row handlers the store answers every request; the
\* only error it reports there is the one of .single() for an id that
\* matches no row.  Errors of the store during a run are modelled in
\* ProcessDueReminders.
\* ------------------------------------------------------------------------

\* the request with its body
CreateOp(in) ==
  [name |-> "create", id |-> 0, t |-> NoTime, again |-> FALSE, body |-> in]

\* res.json({ success: true, reminder: data }), data being the row that
\* .insert(...).select().single() returned
Created(row) ==
  [status |-> 200, success |-> TRUE, error |-> NoValue, results |-> <<>>,
   reminder |-> row]

\* a row without the default of notification_methods
NewRowNoDefault(in, scheduledFor) ==
  [ email |-> in.email,
    phone_number |-> in.phoneNumber,
    transcript |-> "memo",
    tasks |-> <<"task">>,
    email_draft |-> "draft",
    scheduled_for |-> scheduledFor,
    notification_methods |->
        IF in.notificationMethods = <<>> THEN {} ELSE in.notificationMethods[1],
    sent |-> FALSE,
    completed |-> FALSE,
    last_followup_sent |-> NoTime,
    followup_count |-> 0 ]

\* the row inserted for a request body
NewRow(in, scheduledFor) ==
  [ email |-> in.email,
    phone_number |-> in.phoneNumber,
    transcript |-> "memo",
    tasks |-> <<"task">>,
    email_draft |-> "draft",
    scheduled_for |-> scheduledFor,
    notification_methods |->
        IF in.notificationMethods = <<>> THEN {"email"} ELSE in.notificationMethods[1],
    sent |-> FALSE,
    completed |-> FALSE,
    last_followup_sent |-> NoTime,
    followup_count |-> 0 ]

Ids == DOMAIN reminders

\* the last hour observed for a store of n reminders
Horizon(n) == IF n > 2 THEN 0 ELSE IF n > 1 THEN MaxTimeMany ELSE MaxTime

Insert(store, row) ==
  LET id == Cardinality(DOMAIN store) + 1
  IN  [i \in (DOMAIN store) \cup {id} |-> IF i = id THEN row ELSE store[i]]

CreateReminder ==
  /\ Cardinality(Ids) < MaxReminders
  /\ now <= Horizon(Cardinality(Ids) + 1)
  /\ \E in \in CreateInputs, scheduledFor \in CreateTimes :
       /\ lastOp' = CreateOp(in)
       /\ IF ~supabase
          THEN /\ response' = Fail("Database not configured")
               /\ UNCHANGED reminders
          ELSE /\ reminders' = Insert(reminders, NewRow(in, scheduledFor))
               /\ response' = Created(NewRow(in, scheduledFor))
  /\ log' = <<>>
  /\ UNCHANGED <<config, now, aux>>

\* ------------------------------------------------------------------------
\* POST /api/reminders/:id/complete and /api/reminders/:id/reschedule
\* ------------------------------------------------------------------------

\* a completion that toggles the flag
CompleteUpdateToggles(store, id) ==
  [store EXCEPT ![id].completed = ~@]

\* .update(patch).eq('id', id): the rows after the update
CompleteUpdate(store, id) ==
  [store EXCEPT ![id].completed = TRUE]

\* a reschedule that also reopens the reminder
RescheduleUpdateReopens(store, id, scheduledFor) ==
  [store EXCEPT ![id].scheduled_for = scheduledFor,
                ![id].sent = FALSE,
                ![id].completed = FALSE,
                ![id].last_followup_sent = NoTime,
                ![id].followup_count = 0]

\* a reschedule that keeps the count of the follow-ups
RescheduleUpdateKeepsCount(store, id, scheduledFor) ==
  [store EXCEPT ![id].scheduled_for = scheduledFor,
                ![id].sent = FALSE,
                ![id].last_followup_sent = NoTime]

RescheduleUpdate(store, id, scheduledFor) ==
  [store EXCEPT ![id].scheduled_for = scheduledFor,
                ![id].sent = FALSE,
                ![id].last_followup_sent = NoTime,
                ![id].followup_count = 0]

\* an update that reports no error when it matched no row
SingleErrorNever(store, id) == FALSE

\* .select().single() reports an error unless exactly one row was updated
SingleError(store, id) == id \notin DOMAIN store

CompleteReminder ==
  /\ \E id \in RequestIds :
       /\ lastOp' = Repeated("complete", id, NoTime)
       /\ IF ~supabase
          THEN /\ response' = Fail("Database not configured")
               /\ UNCHANGED reminders
          ELSE IF SingleError(reminders, id)
          THEN /\ response' = Fail("no rows returned")
               /\ UNCHANGED reminders
          ELSE /\ reminders' = CompleteUpdate(reminders, id)
               /\ response' = Ok(<<>>)
  /\ log' = <<>>
  /\ UNCHANGED <<config, now, aux>>

RescheduleReminder ==
  /\ \E id \in RequestIds, scheduledFor \in RescheduleTimes :
       /\ lastOp' = Op("reschedule", id, scheduledFor)
       /\ IF ~supabase
          THEN /\ response' = Fail("Database not configured")
               /\ UNCHANGED reminders
          ELSE IF SingleError(reminders, id)
          THEN /\ response' = Fail("no rows returned")
               /\ UNCHANGED reminders
          ELSE /\ reminders' = RescheduleUpdate(reminders, id, scheduledFor)
               /\ response' = Ok(<<>>)
  /\ log' = <<>>
  /\ UNCHANGED <<config, now, aux>>

\* ------------------------------------------------------------------------
\* POST /api/reminders/send-due
\* ------------------------------------------------------------------------

\* the ids of a set as a sequence, in ascending order (the order in which
\* the model lets a query return its rows)
RECURSIVE Ascending(_)
Ascending(S) ==
  IF S = {} THEN <<>>
  ELSE LET m == CHOOSE x \in S : \A y \in S : x <= y
       IN  <<m>> \o Ascending(S \ {m})

\* a due query with .lt('scheduled_for', now)
DueQueryStrict(store, t) ==
  {id \in DOMAIN store : store[id].sent = FALSE /\ store[id].scheduled_for < t}

\* a due query that also asks for .eq('completed', false)
DueQueryOpenOnly(store, t) ==
  {id \in DOMAIN store :
     /\ store[id].sent = FALSE
     /\ store[id].completed = FALSE
     /\ store[id].scheduled_for <= t}

\* a due query without .eq('sent', false)
DueQueryAnySent(store, t) ==
  {id \in DOMAIN store : store[id].scheduled_for <= t}

\* .eq('sent', false).lte('scheduled_for', now)
DueQuery(store, t) ==
  {id \in DOMAIN store : store[id].sent = FALSE /\ store[id].scheduled_for <= t}

followUpCutoff(t) == t - followUpDelay

\* a follow-up query without .eq('completed', false)
FollowUpQueryAnyCompleted(store, t) ==
  {id \in DOMAIN store :
     /\ store[id].sent = TRUE
     /\ \/ store[id].last_followup_sent = NoTime
        \/ store[id].last_followup_sent < followUpCutoff(t)
     /\ store[id].scheduled_for <= followUpCutoff(t)}

\* a follow-up query with last_followup_sent.lte.cutoff
FollowUpQueryLte(store, t) ==
  {id \in DOMAIN store :
     /\ store[id].sent = TRUE
     /\ store[id].completed = FALSE
     /\ \/ store[id].last_followup_sent = NoTime
        \/ store[id].last_followup_sent <= followUpCutoff(t)
     /\ store[id].scheduled_for <= followUpCutoff(t)}

\* a follow-up query with .lt('scheduled_for', cutoff)
FollowUpQueryStrictSched(store, t) ==
  {id \in DOMAIN store :
     /\ store[id].sent = TRUE
     /\ store[id].completed = FALSE
     /\ \/ store[id].last_followup_sent = NoTime
        \/ store[id].last_followup_sent < followUpCutoff(t)
     /\ store[id].scheduled_for < followUpCutoff(t)}

\* .eq('sent', true).eq('completed', false)
\* .or(last_followup_sent.is.null, last_followup_sent.lt.cutoff)
\* .lte('scheduled_for', cutoff)
FollowUpQuery(store, t) ==
  {id \in DOMAIN store :
     /\ store[id].sent = TRUE
     /\ store[id].completed = FALSE
     /\ \/ store[id].last_followup_sent = NoTime
        \/ store[id].last_followup_sent < followUpCutoff(t)
     /\ store[id].scheduled_for <= followUpCutoff(t)}

\* the guards of the two sends of the due loop
SendsEmail(row) ==
  "email" \in row.notification_methods /\ row.email # NoValue

\* an SMS guard that does not look at the Twilio client
SendsSmsAnyClient(row) ==
  /\ "sms" \in row.notification_methods
  /\ row.phone_number # NoValue

SendsSms(row) ==
  /\ "sms" \in row.notification_methods
  /\ row.phone_number # NoValue
  /\ twilioClient

\* what the environment can do to one pass of the due loop: every call
\* succeeds, the email send throws, the SMS send throws, or the update of
\* `sent` comes back with an error
DueOutcomes(row) ==
  {"ok", "update_error"}
    \cup (IF SendsEmail(row) THEN {"email_throws"} ELSE {})
    \cup (IF SendsSms(row) THEN {"sms_throws"} ELSE {})

\* what the environment can do to one pass of the follow-up loop
FollowUpOutcomes == {"ok", "email_throws", "update_error"}

Result(id, status, error) == [id |-> id, status |-> status, error |-> error]

Call(id, call, ok) == [id |-> id, call |-> call, ok |-> ok]

\* an update that closes the reminder along with marking it sent
MarkSentCompletes(store, id) ==
  [store EXCEPT ![id].sent = TRUE, ![id].completed = TRUE]

\* .update({ sent: true }).eq('id', id)
MarkSent(store, id) == [store EXCEPT ![id].sent = TRUE]

\* a pass that leaves a reminder alone when the table has it as sent by
\* now, as an update conditional on sent = false would
DueOneIfUnsent(acc, id, row, outcome) ==
  IF acc.store[id].sent
  THEN acc
  ELSE LET email == IF SendsEmail(row)
                    THEN <<Call(id, "email", outcome # "email_throws")>> ELSE <<>>
           sms   == IF SendsSms(row)
                    THEN <<Call(id, "sms", outcome # "sms_throws")>> ELSE <<>>
       IN  IF outcome = "email_throws"
           THEN [acc EXCEPT !.log = @ \o email,
                            !.results = Append(@, Result(id, "failed", "email error"))]
           ELSE IF outcome = "sms_throws"
           THEN [acc EXCEPT !.log = @ \o email \o sms,
                            !.results = Append(@, Result(id, "failed", "sms error"))]
           ELSE [acc EXCEPT
                   !.store = IF outcome = "update_error" THEN @ ELSE MarkSent(@, id),
                   !.log = @ \o email \o sms
                             \o <<Call(id, "mark_sent", outcome # "update_error")>>,
                   !.results = Append(@, Result(id, "sent", NoValue))]

\* a pass that goes on to the SMS and to the update after the email send
\* threw
DueOneToleratesEmail(acc, id, row, outcome) ==
  LET email == IF SendsEmail(row)
               THEN <<Call(id, "email", outcome # "email_throws")>> ELSE <<>>
      sms   == IF SendsSms(row)
               THEN <<Call(id, "sms", outcome # "sms_throws")>> ELSE <<>>
  IN  IF outcome = "sms_throws"
      THEN [acc EXCEPT !.log = @ \o email \o sms,
                       !.results = Append(@, Result(id, "failed", "sms error"))]
      ELSE [acc EXCEPT
              !.store = IF outcome = "update_error" THEN @ ELSE MarkSent(@, id),
              !.log = @ \o email \o sms
                        \o <<Call(id, "mark_sent", outcome # "update_error")>>,
              !.results = Append(@, Result(id, "sent", NoValue))]

\* a pass that stores sent=true as soon as the email is out, before the SMS
DueOneMarksAfterEmail(acc, id, row, outcome) ==
  LET email == IF SendsEmail(row)
               THEN <<Call(id, "email", outcome # "email_throws")>> ELSE <<>>
      sms   == IF SendsSms(row)
               THEN <<Call(id, "sms", outcome # "sms_throws")>> ELSE <<>>
  IN  IF outcome = "email_throws"
      THEN [acc EXCEPT !.log = @ \o email,
                       !.results = Append(@, Result(id, "failed", "email error"))]
      ELSE IF outcome = "sms_throws"
      THEN [acc EXCEPT !.store = MarkSent(@, id),
                       !.log = @ \o email \o sms,
                       !.results = Append(@, Result(id, "failed", "sms error"))]
      ELSE [acc EXCEPT
              !.store = IF outcome = "update_error" THEN @ ELSE MarkSent(@, id),
              !.log = @ \o email \o sms
                        \o <<Call(id, "mark_sent", outcome # "update_error")>>,
              !.results = Append(@, Result(id, "sent", NoValue))]

\* a pass that reports a reminder for which no channel applies as failed
\* and leaves it unsent
DueOneNeedsChannel(acc, id, row, outcome) ==
  LET email == IF SendsEmail(row)
               THEN <<Call(id, "email", outcome # "email_throws")>> ELSE <<>>
      sms   == IF SendsSms(row)
               THEN <<Call(id, "sms", outcome # "sms_throws")>> ELSE <<>>
  IN  IF outcome = "email_throws"
      THEN [acc EXCEPT !.log = @ \o email,
                       !.results = Append(@, Result(id, "failed", "email error"))]
      ELSE IF outcome = "sms_throws"
      THEN [acc EXCEPT !.log = @ \o email \o sms,
                       !.results = Append(@, Result(id, "failed", "sms error"))]
      ELSE IF ~SendsEmail(row) /\ ~SendsSms(row)
      THEN [acc EXCEPT !.results = Append(@, Result(id, "failed", "no channel"))]
      ELSE [acc EXCEPT
              !.store = IF outcome = "update_error" THEN @ ELSE MarkSent(@, id),
              !.log = @ \o email \o sms
                        \o <<Call(id, "mark_sent", outcome # "update_error")>>,
              !.results = Append(@, Result(id, "sent", NoValue))]

\* a pass whose update of `sent` applies only to a row that still has the
\* scheduled_for the due query returned
DueOneIfUnchanged(acc, id, row, outcome) ==
  LET email == IF SendsEmail(row)
               THEN <<Call(id, "email", outcome # "email_throws")>> ELSE <<>>
      sms   == IF SendsSms(row)
               THEN <<Call(id, "sms", outcome # "sms_throws")>> ELSE <<>>
  IN  IF outcome = "email_throws"
      THEN [acc EXCEPT !.log = @ \o email,
                       !.results = Append(@, Result(id, "failed", "email error"))]
      ELSE IF outcome = "sms_throws"
      THEN [acc EXCEPT !.log = @ \o email \o sms,
                       !.results = Append(@, Result(id, "failed", "sms error"))]
      ELSE [acc EXCEPT
              !.store = IF \/ outcome = "update_error"
                           \/ @[id].scheduled_for # row.scheduled_for
                        THEN @ ELSE MarkSent(@, id),
              !.log = @ \o email \o sms
                        \o <<Call(id, "mark_sent", outcome # "update_error")>>,
              !.results = Append(@, Result(id, "sent", NoValue))]

\* one pass of the due loop for the row `row` read by the due query;
\* acc is [store, results, log]
DueOne(acc, id, row, outcome) ==
  LET email == IF SendsEmail(row)
               THEN <<Call(id, "email", outcome # "email_throws")>> ELSE <<>>
      sms   == IF SendsSms(row)
               THEN <<Call(id, "sms", outcome # "sms_throws")>> ELSE <<>>
  IN  IF outcome = "email_throws"
      THEN [acc EXCEPT !.log = @ \o email,
                       !.results = Append(@, Result(id, "failed", "email error"))]
      ELSE IF outcome = "sms_throws"
      THEN [acc EXCEPT !.log = @ \o email \o sms,
                       !.results = Append(@, Result(id, "failed", "sms error"))]
      ELSE [acc EXCEPT
              !.store = IF outcome = "update_error" THEN @ ELSE MarkSent(@, id),
              !.log = @ \o email \o sms
                        \o <<Call(id, "mark_sent", outcome # "update_error")>>,
              !.results = Append(@, Result(id, "sent", NoValue))]

\* a due loop without the per-reminder try/catch: the first throw ends it
RECURSIVE DueLoopNoCatch(_, _, _, _)
DueLoopNoCatch(acc, ids, rows, outcome) ==
  IF ids = <<>> THEN acc
  ELSE IF outcome[Head(ids)] \in {"email_throws", "sms_throws"}
       THEN DueOne(acc, Head(ids), rows[Head(ids)], outcome[Head(ids)])
       ELSE DueLoopNoCatch(
              DueOne(acc, Head(ids), rows[Head(ids)], outcome[Head(ids)]),
              Tail(ids), rows, outcome)

\* a due loop that handles the first selected reminder only and leaves
\* the others to later runs
DueLoopFirstOnly(acc, ids, rows, outcome) ==
  IF ids = <<>> THEN acc
  ELSE DueOne(acc, Head(ids), rows[Head(ids)], outcome[Head(ids)])

RECURSIVE DueLoop(_, _, _, _)
DueLoop(acc, ids, rows, outcome) ==
  IF ids = <<>> THEN acc
  ELSE DueLoop(DueOne(acc, Head(ids), rows[Head(ids)], outcome[Head(ids)]),
               Tail(ids), rows, outcome)

\* an update that counts the follow-up and does not stamp it
FollowUpUpdateCountOnly(store, id, row, t) ==
  [store EXCEPT ![id].followup_count = row.followup_count + 1]

\* .update({ last_followup_sent: now, followup_count: (count || 0) + 1 })
\* .eq('id', id), with the count of the row as the follow-up query read it
FollowUpUpdate(store, id, row, t) ==
  [store EXCEPT ![id].last_followup_sent = t,
                ![id].followup_count = row.followup_count + 1]

\* a pass that stamps the follow-up although its send threw
FollowUpOneStampsOnThrow(acc, id, row, outcome, t) ==
  [acc EXCEPT
     !.store = IF outcome = "update_error" THEN @
               ELSE FollowUpUpdate(@, id, row, t),
     !.log = IF outcome = "email_throws"
             THEN Append(@, Call(id, "followup", FALSE))
             ELSE @ \o <<Call(id, "followup", TRUE),
                         Call(id, "followup_update", outcome # "update_error")>>,
     !.results = Append(@, IF outcome = "email_throws"
                           THEN Result(id, "followup_failed", "email error")
                           ELSE Result(id, "followup_sent", NoValue))]

\* a pass that follows the notification_methods of the reminder, as the
\* due loop does
FollowUpOneByMethods(acc, id, row, outcome, t) ==
  LET email == IF SendsEmail(row)
               THEN <<Call(id, "followup", outcome # "email_throws")>> ELSE <<>>
      sms   == IF SendsSms(row) THEN <<Call(id, "sms", TRUE)>> ELSE <<>>
  IN  IF outcome = "email_throws"
      THEN [acc EXCEPT
              !.log = @ \o email,
              !.results = Append(@, Result(id, "followup_failed", "email error"))]
      ELSE [acc EXCEPT
              !.store = IF outcome = "update_error" THEN @
                        ELSE FollowUpUpdate(@, id, row, t),
              !.log = @ \o email \o sms
                        \o <<Call(id, "followup_update", outcome # "update_error")>>,
              !.results = Append(@, Result(id, "followup_sent", NoValue))]

\* one pass of the follow-up loop
FollowUpOne(acc, id, row, outcome, t) ==
  IF outcome = "email_throws"
  THEN [acc EXCEPT
          !.log = Append(@, Call(id, "followup", FALSE)),
          !.results = Append(@, Result(id, "followup_failed", "email error"))]
  ELSE [acc EXCEPT
          !.store = IF outcome = "update_error" THEN @
                    ELSE FollowUpUpdate(@, id, row, t),
          !.log = @ \o <<Call(id, "followup", TRUE),
                         Call(id, "followup_update", outcome # "update_error")>>,
          !.results = Append(@, Result(id, "followup_sent", NoValue))]

RECURSIVE FollowUpLoop(_, _, _, _, _)
FollowUpLoop(acc, ids, rows, outcome, t) ==
  IF ids = <<>> THEN acc
  ELSE FollowUpLoop(
         FollowUpOne(acc, Head(ids), rows[Head(ids)], outcome[Head(ids)], t),
         Tail(ids), rows, outcome, t)

\* the choices of the environment for the rows read by the due query
DueOutcomesFor(store, ids) ==
  {f \in [ids -> {"ok", "update_error", "email_throws", "sms_throws"}] :
     \A id \in ids : f[id] \in DueOutcomes(store[id])}

\* the choices of the environment for the rows read by the follow-up query
FollowUpOutcomesFor(ids) == [ids -> FollowUpOutcomes]

\* the run needs more than the store: a channel configured
ServicesConfiguredAnyChannel == supabase /\ (resend \/ twilioClient)

\* the run needs the store only
ServicesConfiguredStoreOnly == supabase

\* if (!supabase || !resend) return 500
ServicesConfigured == supabase /\ resend

ProcessDueReminders ==
  /\ lastOp' = Op("send-due", 0, now)
  /\ IF ~ServicesConfigured
     THEN /\ response' = Fail("Services not configured")
          /\ log' = <<>>
          /\ UNCHANGED reminders
     ELSE \E dueError \in BOOLEAN, followUpError \in BOOLEAN :
          IF dueError
          THEN /\ response' = Fail("store error")
               /\ log' = <<Call(0, "due_query", FALSE)>>
               /\ UNCHANGED reminders
          ELSE LET dueReminders == DueQuery(reminders, now)
               IN  \E d \in DueOutcomesFor(reminders, dueReminders) :
                   \E afterDue \in {DueLoop(
                         [store |-> reminders, results |-> <<>>,
                          log |-> <<Call(0, "due_query", TRUE)>>],
                         Ascending(dueReminders), reminders, d)} :
                   LET queried == [afterDue EXCEPT
                         !.log = Append(@, Call(0, "followup_query", ~followUpError))]
                       followUpReminders ==
                         IF followUpError THEN {}
                         ELSE FollowUpQuery(afterDue.store, now)
                   IN  \E f \in FollowUpOutcomesFor(followUpReminders) :
                       \E done \in {FollowUpLoop(
                             queried, Ascending(followUpReminders),
                             afterDue.store, f, now)} :
                           /\ reminders' = done.store
                           /\ log' = done.log
                           /\ response' = Report(done.results)
  /\ UNCHANGED <<config, now, aux>>

\* ------------------------------------------------------------------------
\* POST /api/send-email
\* ------------------------------------------------------------------------

\* a handler that goes on without the key
EmailKeyMissingNever == FALSE

\* !process.env.RESEND_API_KEY; the Resend client exists iff the key is set
EmailKeyMissing == ~resend

\* the body may come without tasks, and then tasks.map throws before the
\* send; the send itself may throw
SendEmailNow ==
  /\ lastOp' = Op("send-email", 0, NoTime)
  /\ IF EmailKeyMissing
     THEN /\ response' = Fail("Resend API key not configured")
          /\ log' = <<>>
     ELSE \E tasksGiven \in BOOLEAN, sendThrows \in BOOLEAN :
          IF ~tasksGiven
          THEN /\ response' = Fail("tasks error")
               /\ log' = <<>>
          ELSE IF sendThrows
          THEN /\ response' = Fail("email error")
               /\ log' = <<Call(0, "email_now", FALSE)>>
          ELSE /\ response' = Ok(<<>>)
               /\ log' = <<Call(0, "email_now", TRUE)>>
  /\ UNCHANGED <<config, reminders, now, aux>>

\* ------------------------------------------------------------------------
\* The clock
\* ------------------------------------------------------------------------

Tick ==
  /\ \E t \in Times : t > now /\ t <= Horizon(Cardinality(Ids)) /\ now' = t
  /\ UNCHANGED <<config, reminders, lastOp, response, log, aux>>

\* ------------------------------------------------------------------------

Init ==
  /\ supabase \in BOOLEAN
  /\ resend \in BOOLEAN
  /\ twilioClient \in BOOLEAN
  /\ reminders = <<>>
  /\ now = 0
  /\ lastOp = Op("start", 0, NoTime)
  /\ response = Ok(<<>>)
  /\ log = <<>>
  /\ PhoneIdle
  /\ TranscribeIdle
  /\ ExtractIdle
  /\ OverlapIdle

Next ==
  \/ CreateReminder
  \/ CompleteReminder
  \/ RescheduleReminder
  \/ ProcessDueReminders
  \/ SendEmailNow
  \/ Tick

Spec == Init /\ [][Next]_vars

\* ------------------------------------------------------------------------
\* A table of two due reminders under a trigger that keeps calling
\* POST /api/reminders/send-due, as the cron job that calls the endpoint
\* does: a run is taken again and again.  Nothing is assumed about what
\* the sends and the store do in those runs; the reminders may be
\* rescheduled and the clock advances.
\* ------------------------------------------------------------------------

InitLive ==
  /\ supabase = TRUE
  /\ resend = TRUE
  /\ twilioClient \in BOOLEAN
  /\ \E in1, in2 \in CreateInputs :
       /\ in1.notificationMethods = <<>>
       /\ reminders = <<NewRow(in1, 1), NewRow(in2, 1)>>
  /\ now = 1
  /\ lastOp = Op("start", 0, NoTime)
  /\ response = Ok(<<>>)
  /\ log = <<>>
  /\ PhoneIdle
  /\ TranscribeIdle
  /\ ExtractIdle
  /\ OverlapIdle

NextLive ==
  \/ ProcessDueReminders
  \/ RescheduleReminder
  \/ Tick

SpecLive == InitLive /\ [][NextLive]_vars /\ WF_vars(ProcessDueReminders)

\* ------------------------------------------------------------------------
\* formatPhone, the normalization of a phone number before an SMS is sent
\*
\* A string is the sequence of its characters.
\* ------------------------------------------------------------------------

\* the longest string drawn as an argument
MaxPhoneLen == 4

\* formatPhone is applied to its own result up to this many times in a row
MaxFormatCalls == 2

\* the characters the arguments are drawn from: the country code, another
\* digit, and two characters that are no digits
PhoneAlphabet == {"1", "5", "+", "-"}

Digits == {"0", "1", "2", "3", "4", "5", "6", "7", "8", "9"}

IsDigit(c) == c \in Digits

\* the three spellings of one US number
PhoneDashed == <<"5", "5", "5", "-", "1", "2", "3", "-", "4", "5", "6", "7">>

PhoneWithCountryCode == <<"1", "5", "5", "5", "1", "2", "3", "4", "5", "6", "7">>

PhoneE164 == <<"+">> \o PhoneWithCountryCode

PhoneExamples == {PhoneDashed, PhoneWithCountryCode, PhoneE164}

PhoneInputs ==
  PhoneExamples \cup UNION { [1..n -> PhoneAlphabet] : n \in 0..MaxPhoneLen }

\* a normalization that puts the country code in front of every number
formatPhoneAlwaysPrefix(p) ==
  IF p = <<>>
  THEN <<>>
  ELSE <<"+", "1">> \o SelectSeq(p, IsDigit)

formatPhone(p) ==
  IF p = <<>>
  THEN <<>>
  ELSE LET digits == SelectSeq(p, IsDigit)
           withCountryCode ==
             IF Len(digits) > 0 /\ digits[1] = "1" THEN digits ELSE <<"1">> \o digits
       IN  <<"+">> \o withCountryCode

\* the reminder lifecycle at rest, while a helper is looked at on its own
CoreIdle ==
  /\ supabase = FALSE
  /\ resend = FALSE
  /\ twilioClient = FALSE
  /\ reminders = <<>>
  /\ now = 0
  /\ lastOp = Op("start", 0, NoTime)
  /\ response = Ok(<<>>)
  /\ log = <<>>

\* one call; the first is made with the argument, each later one with the
\* result of the call before it
FormatPhone ==
  /\ Len(formatted) < MaxFormatCalls
  /\ formatted' =
       Append(formatted,
              formatPhone(IF formatted = <<>> THEN phone ELSE formatted[Len(formatted)]))
  /\ UNCHANGED <<core, phone, transcribeVars, extractVars, runs>>

InitPhone ==
  /\ CoreIdle
  /\ TranscribeIdle
  /\ ExtractIdle
  /\ OverlapIdle
  /\ phone \in PhoneInputs
  /\ formatted = <<>>

NextPhone == FormatPhone

SpecPhone == InitPhone /\ [][NextPhone]_vars

\* ------------------------------------------------------------------------
\* POST /api/transcribe and the temporary files of its uploads
\*
\* multer stores the upload of request r under a name of its own in
\* uploads/; the handler runs up to its await of the provider in one step
\* and from the provider's answer to its end in another, so that requests
\* overlap.  unlinkSync and existsSync answer for the directory as it is.
\* ------------------------------------------------------------------------

\* req.file.path of request r
FilePath(r) == [upload |-> r, ext |-> ""]

\* req.file.path + '.webm'
WebmPath(r) == [upload |-> r, ext |-> ".webm"]

\* fs.unlinkSync(path)
Unlink(dir, path) == dir \ {path}

\* fs.renameSync(from, to)
Rename(dir, from, to) == (dir \ {from}) \cup {to}

\* a catch block that looks for the renamed file only
CleanUpRenamedOnly(dir, r, req) ==
  IF req.renamedPath # <<>> /\ req.renamedPath[1] \in dir
  THEN Unlink(dir, req.renamedPath[1])
  ELSE dir

\* the catch block: the renamed file if it exists, else the uploaded one
CleanUp(dir, r, req) ==
  IF req.renamedPath # <<>> /\ req.renamedPath[1] \in dir
  THEN Unlink(dir, req.renamedPath[1])
  ELSE IF req.file /\ FilePath(r) \in dir
  THEN Unlink(dir, FilePath(r))
  ELSE dir

\* upload.single('audio'): the request arrives, with an audio file that
\* multer writes to uploads/, or without one
Upload ==
  /\ \E r \in Uploads, file \in BOOLEAN :
       /\ transcribing[r].pc = "idle"
       /\ transcribing' = [transcribing EXCEPT ![r].pc = "received",
                                               ![r].file = file]
       /\ uploads' = IF file THEN uploads \cup {FilePath(r)} ELSE uploads
  /\ UNCHANGED <<core, phoneVars, openaiKey, extractVars, runs>>

\* the handler up to its await: 400 without a file, the mock transcript
\* without a key, else the rename, which may throw
TranscribeStart ==
  /\ \E r \in Uploads, renameThrows \in BOOLEAN :
       /\ transcribing[r].pc = "received"
       /\ IF ~transcribing[r].file
          THEN /\ transcribing' = [transcribing EXCEPT ![r].pc = "done",
                                                       ![r].status = 400]
               /\ UNCHANGED uploads
          ELSE IF ~openaiKey
          THEN /\ uploads' = Unlink(uploads, FilePath(r))
               /\ transcribing' = [transcribing EXCEPT ![r].pc = "done",
                                                       ![r].status = 200]
          ELSE LET req == [transcribing[r] EXCEPT !.renamedPath = <<WebmPath(r)>>]
               IN  IF renameThrows
                   THEN /\ uploads' = CleanUp(uploads, r, req)
                        /\ transcribing' =
                             [transcribing EXCEPT ![r] = [req EXCEPT !.pc = "done",
                                                                     !.status = 500]]
                   ELSE /\ uploads' = Rename(uploads, FilePath(r), WebmPath(r))
                        /\ transcribing' =
                             [transcribing EXCEPT ![r] = [req EXCEPT !.pc = "awaiting"]]
  /\ UNCHANGED <<core, phoneVars, openaiKey, extractVars, runs>>

\* the provider answers or throws
TranscribeFinish ==
  /\ \E r \in Uploads, providerThrows \in BOOLEAN :
       /\ transcribing[r].pc = "awaiting"
       /\ IF providerThrows
          THEN /\ uploads' = CleanUp(uploads, r, transcribing[r])
               /\ transcribing' = [transcribing EXCEPT ![r].pc = "done",
                                                       ![r].status = 500]
          ELSE /\ uploads' = Unlink(uploads, transcribing[r].renamedPath[1])
               /\ transcribing' = [transcribing EXCEPT ![r].pc = "done",
                                                       ![r].status = 200]
  /\ UNCHANGED <<core, phoneVars, openaiKey, extractVars, runs>>

InitTranscribe ==
  /\ CoreIdle
  /\ PhoneIdle
  /\ ExtractIdle
  /\ OverlapIdle
  /\ openaiKey \in BOOLEAN
  /\ uploads = {}
  /\ transcribing =
       [r \in Uploads |-> [pc |-> "idle", file |-> FALSE,
                          renamedPath |-> <<>>, status |-> 0]]

NextTranscribe ==
  \/ Upload
  \/ TranscribeStart
  \/ TranscribeFinish

SpecTranscribe == InitTranscribe /\ [][NextTranscribe]_vars

\* ------------------------------------------------------------------------
\* POST /api/analyze-memo and the parsing of the model's answer
\*
\* The answer is a sequence of chunks: an opening code fence marked json, a
\* bare code fence, a newline, prose, or the text of one JSON value.  A JSON
\* value is an object with the members tasks, emailDraft and
\* suggestedSendTime, each present with a value of some type or missing,
\* or a value that is no object.
\* ------------------------------------------------------------------------

\* the members of a task the prompt asks for
TaskFields == {"description", "suggestedDate", "priority", "category"}

\* the tasks a JSON answer may hold: as asked for, or with members missing
TaskItems == {TaskFields, {"description"}}

\* what the member tasks may be
TasksValues ==
  { [type |-> "missing", items |-> <<>>],
    [type |-> "string", items |-> <<>>],
    [type |-> "array", items |-> <<>>] }
    \cup { [type |-> "array", items |-> <<i>>] : i \in TaskItems }

\* the JSON values the model may answer
JsonValues ==
  { [type |-> "array", tasks |-> [type |-> "missing", items |-> <<>>],
     emailDraft |-> "missing", suggestedSendTime |-> "missing"] }
    \cup { [type |-> "object", tasks |-> t, emailDraft |-> d, suggestedSendTime |-> s] :
             t \in TasksValues,
             d \in {"missing", "string", "number"},
             s \in {"missing", "string"} }

FenceJson == [chunk |-> "fence json"]

Fence == [chunk |-> "fence"]

Newline == [chunk |-> "\n"]

Prose == [chunk |-> "prose"]

Json(v) == [chunk |-> "json", value |-> v]

\* the answers of the model: the bare value, the value in a json fence or
\* in a bare fence, the value after a sentence of prose, prose alone, and
\* the empty answer
ResponseTexts ==
  { <<Prose>>, <<>> }
    \cup { <<Json(v)>> : v \in JsonValues }
    \cup { <<FenceJson, Newline, Json(v), Newline, Fence>> : v \in JsonValues }
    \cup { <<Fence, Newline, Json(v), Newline, Fence>> : v \in JsonValues }
    \cup { <<Prose, Newline, Json(v)>> : v \in JsonValues }

\* text.replace(fence and optional newline, empty string), for all matches:
\* every fence goes, with the newline that follows it
RECURSIVE StripFence(_, _)
StripFence(text, fence) ==
  IF text = <<>> THEN <<>>
  ELSE IF Head(text) = fence
       THEN IF Len(text) > 1 /\ text[2] = Newline
            THEN StripFence(Tail(Tail(text)), fence)
            ELSE StripFence(Tail(text), fence)
       ELSE <<Head(text)>> \o StripFence(Tail(text), fence)

\* responseText.trim(): the newlines at both ends go
RECURSIVE Trim(_)
Trim(text) ==
  IF text = <<>> THEN <<>>
  ELSE IF Head(text) = Newline THEN Trim(Tail(text))
  ELSE IF text[Len(text)] = Newline THEN Trim(SubSeq(text, 1, Len(text) - 1))
  ELSE text

\* cleanedResponse
Cleaned(text) == StripFence(StripFence(Trim(text), FenceJson), Fence)

IsNoNewline(c) == c # Newline

\* JSON.parse: the text must be one JSON value, white space aside; the
\* result is <<value>>, or <<>> when it throws
JsonParse(text) ==
  LET body == SelectSeq(text, IsNoNewline)
  IN  IF Len(body) = 1 /\ body[1].chunk = "json" THEN <<body[1].value>> ELSE <<>>

Analysis(status, success, error, analysis) ==
  [status |-> status, success |-> success, error |-> error, analysis |-> analysis]

\* the handler; anthropic.messages.create may throw
AnalyzeMemo ==
  /\ analyzed = <<>>
  /\ IF ~anthropicKey
     THEN analyzed' = <<Analysis(500, FALSE, "Anthropic API key not configured", <<>>)>>
     ELSE \E providerThrows \in BOOLEAN :
          IF providerThrows
          THEN analyzed' = <<Analysis(500, FALSE, "provider error", <<>>)>>
          ELSE LET parsed == JsonParse(Cleaned(responseText))
               IN  IF parsed = <<>>
                   THEN analyzed' = <<Analysis(500, FALSE, "JSON parse error", <<>>)>>
                   ELSE analyzed' = <<Analysis(200, TRUE, NoValue, parsed)>>
  /\ UNCHANGED <<core, phoneVars, transcribeVars, anthropicKey, responseText, runs>>

InitExtract ==
  /\ CoreIdle
  /\ PhoneIdle
  /\ TranscribeIdle
  /\ OverlapIdle
  /\ anthropicKey \in BOOLEAN
  /\ responseText \in ResponseTexts
  /\ analyzed = <<>>

NextExtract == AnalyzeMemo

SpecExtract == InitExtract /\ [][NextExtract]_vars

\* ------------------------------------------------------------------------
\* Overlapping runs of POST /api/reminders/send-due
\*
\* Two requests are handled at once: each run is taken one await after the
\* other, and the steps of the runs interleave.  A query reads the table
\* as it is at that moment and the run keeps the rows it read; a pass of a
\* loop sends for the row it read and then writes its update, to the table
\* as it is by then.  A send does not touch the table, so it is taken in
\* one step with the update that follows it.  The queries succeed.
\* ------------------------------------------------------------------------

\* at most this many reminders are in the table the runs race on
MaxRaced == 1

\* the hours at which the runs start: at a reminder's scheduled hour, and
\* 24 hours after it
RaceTimes == {1, 25}

\* a row created for hour 1, still unsent or already marked sent
RacedRows ==
  { [NewRow(in, 1) EXCEPT !.sent = sent] : in \in CreateInputs, sent \in BOOLEAN }

RacedStores == UNION { [1..n -> RacedRows] : n \in 1..MaxRaced }

\* the rows a query returned
Selected(store, ids) == [id \in ids |-> store[id]]

\* now = new Date(), the configuration check and the due query
StartRun ==
  /\ \E r \in Runs :
       /\ runs[r].pc = "idle"
       /\ IF ~ServicesConfigured
          THEN runs' = [runs EXCEPT ![r].pc = "done", ![r].t = now]
          ELSE runs' = [runs EXCEPT
                 ![r].pc = "due",
                 ![r].t = now,
                 ![r].rows = Selected(reminders, DueQuery(reminders, now)),
                 ![r].todo = Ascending(DueQuery(reminders, now)),
                 ![r].log = <<Call(0, "due_query", TRUE)>>]
  /\ UNCHANGED <<core, phoneVars, transcribeVars, extractVars>>

\* one pass of the due loop
DuePass ==
  /\ \E r \in Runs :
       /\ runs[r].pc = "due"
       /\ runs[r].todo # <<>>
       /\ LET id == Head(runs[r].todo)
              row == runs[r].rows[id]
          IN  \E outcome \in DueOutcomes(row) :
              LET acc == DueOne([store |-> reminders, results |-> runs[r].results,
                                 log |-> runs[r].log], id, row, outcome)
              IN  /\ reminders' = acc.store
                  /\ runs' = [runs EXCEPT ![r].todo = Tail(@),
                                          ![r].results = acc.results,
                                          ![r].log = acc.log]
  /\ UNCHANGED <<config, now, lastOp, response, log,
                 phoneVars, transcribeVars, extractVars>>

\* the follow-up query, after the due loop
QueryFollowUps ==
  /\ \E r \in Runs :
       /\ runs[r].pc = "due"
       /\ runs[r].todo = <<>>
       /\ runs' = [runs EXCEPT
            ![r].pc = "followup",
            ![r].rows = Selected(reminders, FollowUpQuery(reminders, runs[r].t)),
            ![r].todo = Ascending(FollowUpQuery(reminders, runs[r].t)),
            ![r].log = Append(@, Call(0, "followup_query", TRUE))]
  /\ UNCHANGED <<core, phoneVars, transcribeVars, extractVars>>

\* one pass of the follow-up loop
FollowUpPass ==
  /\ \E r \in Runs :
       /\ runs[r].pc = "followup"
       /\ runs[r].todo # <<>>
       /\ LET id == Head(runs[r].todo)
              row == runs[r].rows[id]
          IN  \E outcome \in FollowUpOutcomes :
              LET acc == FollowUpOne([store |-> reminders, results |-> runs[r].results,
                                      log |-> runs[r].log], id, row, outcome, runs[r].t)
              IN  /\ reminders' = acc.store
                  /\ runs' = [runs EXCEPT ![r].todo = Tail(@),
                                          ![r].results = acc.results,
                                          ![r].log = acc.log]
  /\ UNCHANGED <<config, now, lastOp, response, log,
                 phoneVars, transcribeVars, extractVars>>

\* res.json({ success: true, processed: results.length, results })
EndRun ==
  /\ \E r \in Runs :
       /\ runs[r].pc = "followup"
       /\ runs[r].todo = <<>>
       /\ runs' = [runs EXCEPT ![r].pc = "done", ![r].rows = <<>>]
  /\ UNCHANGED <<core, phoneVars, transcribeVars, extractVars>>

InitOverlap ==
  /\ supabase = TRUE
  /\ resend = TRUE
  /\ twilioClient \in BOOLEAN
  /\ reminders \in RacedStores
  /\ now \in RaceTimes
  /\ lastOp = Op("start", 0, NoTime)
  /\ response = Ok(<<>>)
  /\ log = <<>>
  /\ PhoneIdle
  /\ TranscribeIdle
  /\ ExtractIdle
  /\ OverlapIdle

NextOverlap ==
  \/ StartRun
  \/ DuePass
  \/ QueryFollowUps
  \/ FollowUpPass
  \/ EndRun

SpecOverlap == InitOverlap /\ [][NextOverlap]_vars

\* ------------------------------------------------------------------------
\* Runs step by step as above, with POST /api/reminders/:id/reschedule
\* requests arriving between their store calls.  A reschedule is one store
\* call, so it is one step.
\* ------------------------------------------------------------------------

NextInterleaved ==
  \/ NextOverlap
  \/ RescheduleReminder

SpecInterleaved == InitOverlap /\ [][NextInterleaved]_vars

\* ------------------------------------------------------------------------
\* The channel dispatch of a run, for every kind of reminder
\*
\* The table holds one reminder, created for hour 1 from a request body
\* with or without an email address, with or without a phone number, and
\* with every choice of notificationMethods; the runs are those of
\* ProcessDueReminders.
\* ------------------------------------------------------------------------

\* the request bodies: email and phoneNumber given or not, and
\* notificationMethods not given, empty, or one of the three choices
DispatchInputs ==
  { [email |-> e, phoneNumber |-> p, notificationMethods |-> m] :
      e \in {"a@x", NoValue},
      p \in {"555-123-4567", NoValue},
      m \in {<<>>, <<{}>>, <<{"email"}>>, <<{"sms"}>>, <<{"email", "sms"}>>} }

InitDispatch ==
  /\ supabase \in BOOLEAN
  /\ resend \in BOOLEAN
  /\ twilioClient \in BOOLEAN
  /\ \E in \in DispatchInputs : reminders = <<NewRow(in, 1)>>
  /\ now = 1
  /\ lastOp = Op("start", 0, NoTime)
  /\ response = Ok(<<>>)
  /\ log = <<>>
  /\ PhoneIdle
  /\ TranscribeIdle
  /\ ExtractIdle
  /\ OverlapIdle

NextDispatch ==
  \/ ProcessDueReminders
  \/ Tick

SpecDispatch == InitDispatch /\ [][NextDispatch]_vars

\* ------------------------------------------------------------------------
\* Vocabulary of the properties
\* ------------------------------------------------------------------------

\* a step that is one whole run of POST /api/reminders/send-due
RunStep == lastOp'.name = "send-due" /\ now' = now

\* the run got past the configuration check and the due query
Scanned(l) == l # <<>> /\ l[1] = Call(0, "due_query", TRUE)

\* the run also ran the follow-up query without an error
FollowUpScanned(l) ==
  \E i \in 1..Len(l) : l[i] = Call(0, "followup_query", TRUE)

\* the positions of the result records of reminder id with a status in st
Records(resp, id, st) ==
  {i \in 1..Len(resp.results) :
     resp.results[i].id = id /\ resp.results[i].status \in st}

DueStatuses == {"sent", "failed"}

FollowUpStatuses == {"followup_sent", "followup_failed"}

\* the calls of kind c made for reminder id
Calls(l, id, c) == {i \in 1..Len(l) : l[i].id = id /\ l[i].call = c}

\* the row is unsent and due at hour t
IsDue(row, t) == row.sent = FALSE /\ row.scheduled_for <= t

\* ------------------------------------------------------------------------
\* C1  A reminder that is unsent and due when a run starts is, after the
\*     run, either stored as sent and reported with status sent, or reported
\*     as failed with an error and still stored as unsent; it is never
\*     reported as sent while the stored sent stays false.
\*     The code does not look at the result of the update of `sent`, so the
\*     property is violated when that update comes back with an error.
\* ------------------------------------------------------------------------
C1_SentReportedIffStored ==
  [][ (RunStep /\ response'.success) =>
        \A id \in DOMAIN reminders :
          IsDue(reminders[id], now) =>
            \/ /\ reminders'[id].sent = TRUE
               /\ Records(response', id, {"sent"}) # {}
            \/ /\ reminders'[id].sent = FALSE
               /\ \E i \in Records(response', id, {"failed"}) :
                    response'.results[i].error # NoValue ]_vars

\* ------------------------------------------------------------------------
\* C2  In one run, a delivery error thrown for one selected reminder keeps
\*     no other selected reminder, of the due scan or of the follow-up scan,
\*     from being attempted: the run returns success, with exactly one
\*     result record for every selected reminder, and the send of every
\*     selected reminder was called.
\* ------------------------------------------------------------------------
C2_FailureIsolation ==
  [][ (RunStep /\ Scanned(log')) =>
        /\ response'.success
        /\ \A id \in DOMAIN reminders :
             /\ IsDue(reminders[id], now) =>
                  /\ Cardinality(Records(response', id, DueStatuses)) = 1
                  /\ ("email" \in reminders[id].notification_methods
                        /\ reminders[id].email # NoValue)
                       => Calls(log', id, "email") # {}
             /\ ( /\ FollowUpScanned(log')
                  /\ reminders'[id].sent
                  /\ ~reminders[id].completed
                  /\ reminders[id].scheduled_for <= now - 24
                  /\ \/ reminders[id].last_followup_sent = NoTime
                     \/ reminders[id].last_followup_sent < now - 24 )
                  => /\ Cardinality(Records(response', id, FollowUpStatuses)) = 1
                     /\ Calls(log', id, "followup") # {} ]_vars

\* a run in which the delivery for reminder 1 threw, and reminder 2 was
\* still delivered by the due scan and then followed up
C2_Witness ==
  /\ lastOp.name = "send-due"
  /\ response.success
  /\ Len(response.results) = 3
  /\ response.results[1] = Result(1, "failed", "email error")
  /\ response.results[2] = Result(2, "sent", NoValue)
  /\ response.results[3] = Result(2, "followup_sent", NoValue)

\* ------------------------------------------------------------------------
\* C3  (as claimed) Once a reminder has completed=true, no run sends any
\*     message for it, neither a first delivery nor a follow-up.
\*     Violated: the due query does not look at `completed`.
\* ------------------------------------------------------------------------
C3_NoSendOnceCompleted ==
  lastOp.name = "send-due" =>
    \A id \in DOMAIN reminders :
      reminders[id].completed =>
        \A i \in 1..Len(log) :
          log[i].id = id => log[i].call \notin {"email", "sms", "followup"}

\* C3  (amended) Once a reminder has completed=true, no run sends a
\*     follow-up for it, and a run sends a first delivery for it only
\*     while it is stored with sent=false and scheduledFor <= now.
C3_NoFollowUpOnceCompleted ==
  [][ RunStep =>
        \A id \in DOMAIN reminders :
          reminders[id].completed =>
            /\ Calls(log', id, "followup") = {}
            /\ Records(response', id, FollowUpStatuses) = {}
            /\ (Calls(log', id, "email") \cup Calls(log', id, "sms")) # {}
                 => IsDue(reminders[id], now) ]_vars

\* a run that followed up reminder 2 and not the completed reminder 1,
\* which is as old and as little followed up as reminder 2
C3_Witness ==
  /\ lastOp.name = "send-due"
  /\ DOMAIN reminders = {1, 2}
  /\ reminders[1].completed /\ reminders[1].sent
  /\ reminders[1].last_followup_sent = NoTime
  /\ reminders[1].scheduled_for = reminders[2].scheduled_for
  /\ Calls(log, 1, "followup") = {}
  /\ Calls(log, 2, "followup") # {}

\* ------------------------------------------------------------------------
\* C4  The follow-up scan of a run at hour now selects exactly the
\*     reminders with sent=true, completed=false, scheduledFor <= now-24h
\*     and lastFollowupSent null or < now-24h: scheduledFor = now-24h is
\*     selected, lastFollowupSent = now-24h is not.
\* ------------------------------------------------------------------------
C4_FollowUpSelection ==
  [][ (RunStep /\ Scanned(log') /\ FollowUpScanned(log')) =>
        \A id \in DOMAIN reminders :
          Records(response', id, FollowUpStatuses) # {}
            <=> /\ reminders'[id].sent
                /\ ~reminders[id].completed
                /\ reminders[id].scheduled_for <= now - 24
                /\ \/ reminders[id].last_followup_sent = NoTime
                   \/ reminders[id].last_followup_sent < now - 24 ]_vars

\* a run at hour 49 that did not follow up a reminder followed up at hour 25
C4_Witness ==
  /\ lastOp.name = "send-due" /\ 1 \in DOMAIN reminders /\ lastOp.t = 49 /\ now = 49
  /\ FollowUpScanned(log)
  /\ reminders[1].sent /\ ~reminders[1].completed
  /\ reminders[1].scheduled_for = 1
  /\ reminders[1].last_followup_sent = 25
  /\ Records(response, 1, FollowUpStatuses) = {}

\* the other cases of C4: 25h, 24h and 23h after scheduledFor, and 25h and
\* 23h after the last follow-up
C4_Sched25h ==
  /\ lastOp.name = "send-due" /\ 1 \in DOMAIN reminders /\ lastOp.t = 26 /\ now = 26
  /\ reminders[1].scheduled_for = 1 /\ reminders[1].followup_count = 1
  /\ reminders[1].last_followup_sent = 26

C4_Sched24h ==
  /\ lastOp.name = "send-due" /\ 1 \in DOMAIN reminders /\ lastOp.t = 25 /\ now = 25
  /\ reminders[1].scheduled_for = 1 /\ reminders[1].followup_count = 1
  /\ reminders[1].last_followup_sent = 25

C4_Sched23h ==
  /\ lastOp.name = "send-due" /\ 1 \in DOMAIN reminders /\ lastOp.t = 25 /\ now = 25
  /\ FollowUpScanned(log)
  /\ reminders[1].scheduled_for = 2 /\ reminders[1].sent
  /\ ~reminders[1].completed
  /\ Records(response, 1, FollowUpStatuses) = {}

C4_Followup25h ==
  /\ lastOp.name = "send-due" /\ 1 \in DOMAIN reminders /\ lastOp.t = 50 /\ now = 50
  /\ reminders[1].followup_count = 2
  /\ reminders[1].last_followup_sent = 50
  /\ Calls(log, 1, "followup") # {}

C4_Followup23h ==
  /\ lastOp.name = "send-due" /\ 1 \in DOMAIN reminders /\ lastOp.t = 49 /\ now = 49
  /\ FollowUpScanned(log)
  /\ reminders[1].sent /\ ~reminders[1].completed
  /\ reminders[1].last_followup_sent = 26
  /\ Records(response, 1, FollowUpStatuses) = {}

\* ------------------------------------------------------------------------
\* C5  RescheduleReminder(id, t) applied to a reminder in any state sets
\*     scheduledFor=t, sent=false, lastFollowupSent=null, followupCount=0
\*     and leaves every other field of the record, and every other record,
\*     unchanged.
\* ------------------------------------------------------------------------
C5_RescheduleFrame ==
  [][ (lastOp'.name = "reschedule" /\ now' = now /\ response'.success) =>
        LET id == lastOp'.id
        IN  /\ id \in DOMAIN reminders
            /\ DOMAIN reminders' = DOMAIN reminders
            /\ reminders'[id].scheduled_for = lastOp'.t
            /\ reminders'[id].sent = FALSE
            /\ reminders'[id].last_followup_sent = NoTime
            /\ reminders'[id].followup_count = 0
            /\ reminders'[id].completed = reminders[id].completed
            /\ reminders'[id].tasks = reminders[id].tasks
            /\ reminders'[id].transcript = reminders[id].transcript
            /\ reminders'[id].email_draft = reminders[id].email_draft
            /\ reminders'[id].email = reminders[id].email
            /\ reminders'[id].phone_number = reminders[id].phone_number
            /\ reminders'[id].notification_methods
                 = reminders[id].notification_methods
            /\ \A other \in DOMAIN reminders \ {id} :
                 reminders'[other] = reminders[other] ]_vars

\* a completed reminder was rescheduled next to a reminder that is sent
C5_Witness ==
  /\ lastOp.name = "reschedule" /\ response.success
  /\ DOMAIN reminders = {1, 2}
  /\ lastOp.id = 1
  /\ reminders[1].completed /\ ~reminders[1].sent
  /\ reminders[1].scheduled_for = 2
  /\ reminders[2].sent /\ reminders[2].followup_count = 1

\* ------------------------------------------------------------------------
\* C6  CompleteReminder(id) is idempotent: for an existing reminder in any
\*     state it sets completed=true and changes nothing else, and calling
\*     it a second time changes nothing at all.
\* ------------------------------------------------------------------------
C6_CompleteIdempotent ==
  [][ (lastOp'.name = "complete" /\ now' = now /\ response'.success) =>
        LET id == lastOp'.id
        IN  /\ id \in DOMAIN reminders
            /\ DOMAIN reminders' = DOMAIN reminders
            /\ reminders'[id].completed = TRUE
            /\ \A f \in DOMAIN reminders[id] \ {"completed"} :
                 reminders'[id][f] = reminders[id][f]
            /\ \A other \in DOMAIN reminders \ {id} :
                 reminders'[other] = reminders[other]
            /\ lastOp'.again => reminders' = reminders ]_vars

\* the second of two successive CompleteReminder(1), on a reminder that had
\* been delivered and followed up
C6_Witness ==
  /\ lastOp.name = "complete" /\ lastOp.again /\ response.success
  /\ lastOp.id = 1
  /\ reminders[1].completed /\ reminders[1].sent
  /\ reminders[1].followup_count = 1

\* ------------------------------------------------------------------------
\* C7  CompleteReminder(id) with an id that is not in the Store fails with
\*     an error reported to the caller (status 500, success=false, the
\*     store's no-row error) and changes no record.
\* ------------------------------------------------------------------------
C7_CompleteUnknownId ==
  [][ ( /\ lastOp'.name = "complete" /\ now' = now
        /\ lastOp'.id \notin DOMAIN reminders ) =>
        /\ response'.success = FALSE
        /\ response'.status = 500
        /\ response'.error # NoValue
        /\ supabase => response'.error = "no rows returned"
        /\ reminders' = reminders ]_vars

\* CompleteReminder(3) was refused by a store that holds reminders 1 and 2
C7_Witness ==
  /\ lastOp.name = "complete" /\ lastOp.id = 3
  /\ supabase
  /\ DOMAIN reminders = {1, 2}
  /\ ~reminders[1].completed /\ ~reminders[2].completed
  /\ response.success = FALSE

\* ------------------------------------------------------------------------
\* C8  (as claimed) When the email channel is not configured but the SMS
\*     channel is, a run still delivers a due reminder whose only method is
\*     sms (result sent, sent=true), while a due reminder whose only method
\*     is email gets a per-item failure and keeps sent=false.
\*     Violated: without the email client the run is refused as a whole.
\* ------------------------------------------------------------------------
C8_SmsDeliveredWithoutEmailChannel ==
  (lastOp.name = "send-due" /\ supabase /\ ~resend /\ twilioClient) =>
    \A id \in DOMAIN reminders :
      reminders[id].scheduled_for <= lastOp.t =>
        /\ reminders[id].notification_methods = {"sms"} =>
             \/ reminders[id].sent /\ Records(response, id, {"sent"}) # {}
             \/ Records(response, id, {"failed"}) # {}
        /\ reminders[id].notification_methods = {"email"} =>
             /\ ~reminders[id].sent
             /\ Records(response, id, {"failed"}) # {}

\* C8  (amended) When the email channel is not configured, a run is refused
\*     with the configuration error whatever the SMS configuration: it
\*     makes no call and changes no record, so a due sms-only reminder is
\*     not delivered.  When the email channel is configured but its send
\*     throws, and the SMS channel is configured, a due sms-only reminder
\*     whose SMS send and store update succeed is delivered (result sent,
\*     sent=true), while a due email-only reminder whose send throws gets a
\*     per-item failure with an error and keeps sent=false.
C8_EmailChannelRequired ==
  [][ RunStep =>
        /\ ~resend =>
             /\ response' = Fail("Services not configured")
             /\ log' = <<>>
             /\ reminders' = reminders
        /\ (Scanned(log') /\ twilioClient) =>
             \A id \in DOMAIN reminders :
               IsDue(reminders[id], now) =>
                 /\ ( /\ reminders[id].notification_methods = {"sms"}
                      /\ reminders[id].phone_number # NoValue
                      /\ \A i \in 1..Len(log') :
                           log'[i].id = id => log'[i].ok )
                      => /\ log'[CHOOSE i \in Calls(log', id, "sms") : TRUE].ok
                         /\ Calls(log', id, "email") = {}
                         /\ reminders'[id].sent
                         /\ Records(response', id, {"sent"}) # {}
                 /\ ( /\ reminders[id].notification_methods = {"email"}
                      /\ \E i \in Calls(log', id, "email") : ~log'[i].ok )
                      => /\ ~reminders'[id].sent
                         /\ \E i \in Records(response', id, {"failed"}) :
                              response'.results[i].error # NoValue ]_vars

\* a run refused for want of the email client although the SMS channel is
\* configured and an sms-only reminder is due
C8_Witness ==
  /\ lastOp.name = "send-due" /\ lastOp.t = now
  /\ supabase /\ ~resend /\ twilioClient
  /\ \E id \in DOMAIN reminders :
       /\ reminders[id].notification_methods = {"sms"}
       /\ IsDue(reminders[id], now)
  /\ response.success = FALSE
  /\ log = <<>>

\* the other case of C8: the email send threw for the email-only
\* reminder 1 and the sms-only reminder 2 was delivered
C8_ThrowCase ==
  /\ lastOp.name = "send-due"
  /\ DOMAIN reminders = {1, 2}
  /\ reminders[1].notification_methods = {"email"}
  /\ reminders[2].notification_methods = {"sms"}
  /\ ~reminders[1].sent /\ Records(response, 1, {"failed"}) # {}
  /\ reminders[2].sent /\ Records(response, 2, {"sent"}) # {}
  /\ Calls(log, 2, "sms") # {}

\* ------------------------------------------------------------------------
\* C9  The due scan of a run at hour now makes a first delivery pass for
\*     exactly the reminders with sent=false and scheduledFor <= now: a
\*     reminder with scheduledFor > now or sent=true gets none, and an
\*     email-only reminder with scheduledFor = now whose calls all succeed
\*     yields exactly one result, with status sent, and is stored sent=true.
\* ------------------------------------------------------------------------
C9_DueSelection ==
  [][ (RunStep /\ Scanned(log')) =>
        \A id \in DOMAIN reminders :
          /\ Records(response', id, DueStatuses) # {}
               <=> IsDue(reminders[id], now)
          /\ ~IsDue(reminders[id], now) =>
               /\ Calls(log', id, "email") = {}
               /\ Calls(log', id, "sms") = {}
               /\ Calls(log', id, "mark_sent") = {}
          /\ ( /\ IsDue(reminders[id], now)
               /\ reminders[id].scheduled_for = now
               /\ reminders[id].notification_methods = {"email"}
               /\ reminders[id].email # NoValue
               /\ \A i \in 1..Len(log') : log'[i].id = id => log'[i].ok )
               => /\ Cardinality(Records(response', id, {"sent"})) = 1
                  /\ Records(response', id, {"failed"}) = {}
                  /\ Cardinality(Calls(log', id, "email")) = 1
                  /\ reminders'[id].sent ]_vars

\* the scenario: an email-only reminder scheduled for hour 1, a run at
\* hour 1, one result {id, sent} and the record stored as sent
C9_Witness ==
  /\ lastOp.name = "send-due" /\ lastOp.t = 1 /\ now = 1
  /\ DOMAIN reminders = {1}
  /\ reminders[1].scheduled_for = 1
  /\ reminders[1].notification_methods = {"email"}
  /\ reminders[1].sent
  /\ response.results = <<Result(1, "sent", NoValue)>>
  /\ Calls(log, 1, "email") # {}

\* the other cases of C9: a run that left a reminder scheduled for a later
\* hour alone
C9_FutureCase ==
  /\ lastOp.name = "send-due" /\ lastOp.t = 1 /\ now = 1
  /\ response.success
  /\ DOMAIN reminders = {1}
  /\ reminders[1].scheduled_for = 2
  /\ ~reminders[1].sent
  /\ response.results = <<>>

\* ------------------------------------------------------------------------
\* C10 Rescheduling a completed reminder is permitted and reactivates
\*     delivery: RescheduleReminder(id, t) on a reminder with
\*     completed=true leaves completed true, and the next run with
\*     now >= t makes a first delivery for it and, when its calls succeed,
\*     sets sent=true.
\* ------------------------------------------------------------------------
C10_RescheduleReactivatesCompleted ==
  [][ /\ ( /\ lastOp'.name = "reschedule" /\ now' = now /\ response'.success
           /\ reminders[lastOp'.id].completed )
           => /\ reminders'[lastOp'.id].completed
              /\ IsDue(reminders'[lastOp'.id], lastOp'.t)
      /\ ( /\ lastOp.name = "reschedule" /\ response.success
           /\ reminders[lastOp.id].completed
           /\ now >= lastOp.t
           /\ RunStep /\ Scanned(log') )
           => LET id == lastOp.id
              IN  /\ reminders'[id].completed
                  /\ Cardinality(Records(response', id, DueStatuses)) = 1
                  /\ reminders[id].email # NoValue
                       /\ "email" \in reminders[id].notification_methods
                       => Calls(log', id, "email") # {}
                  /\ (\A i \in 1..Len(log') : log'[i].id = id => log'[i].ok)
                       => /\ reminders'[id].sent
                          /\ Records(response', id, {"sent"}) # {} ]_vars

\* a completed reminder that was rescheduled to hour 2 and then delivered
\* by the run at hour 25
C10_Witness ==
  /\ lastOp.name = "send-due" /\ lastOp.t = 25
  /\ DOMAIN reminders = {1}
  /\ reminders[1].completed
  /\ reminders[1].scheduled_for = 2
  /\ reminders[1].sent
  /\ Records(response, 1, {"sent"}) # {}
  /\ Calls(log, 1, "email") # {}


\* ------------------------------------------------------------------------
\* C11: formatPhone maps "555-123-4567", "15551234567" and "+15551234567"
\* to "+15551234567", and it is idempotent: applied to its own result it
\* returns that result again, for every argument.
\* ------------------------------------------------------------------------

C11_FormatPhoneIdempotent ==
  /\ (phone \in PhoneExamples /\ Len(formatted) >= 1) => formatted[1] = PhoneE164
  /\ \A i \in 2..Len(formatted) : formatted[i] = formatted[1]

\* the dashed spelling has been normalized, and its result once more
C11_Witness ==
  /\ phone = PhoneDashed
  /\ Len(formatted) = MaxFormatCalls
  /\ formatted[1] = PhoneE164

\* so has a string without any digit
C11_NoDigits ==
  /\ phone = <<"-", "+">>
  /\ formatted = <<<<"+", "1">>, <<"+", "1">>>>

\* ------------------------------------------------------------------------
\* C12 When the send of a follow-up throws, the run goes on and reports a
\*     per-item failure with an error for that reminder, its
\*     last_followup_sent and followup_count stay as they were, and it is
\*     selected again by the next run: it still meets the follow-up
\*     predicate at every later hour, and a run that follows directly
\*     gives it a follow-up record again.
\* ------------------------------------------------------------------------

\* the send of the follow-up of reminder id threw in the run logged in l
FollowUpThrew(l, id) == \E i \in Calls(l, id, "followup") : ~l[i].ok

C12_FollowUpSendFailure ==
  [][ RunStep =>
        \A id \in DOMAIN reminders :
          /\ FollowUpThrew(log', id) =>
               /\ response'.success
               /\ \E i \in Records(response', id, {"followup_failed"}) :
                    response'.results[i].error # NoValue
               /\ Records(response', id, {"followup_sent"}) = {}
               /\ reminders'[id].last_followup_sent = reminders[id].last_followup_sent
               /\ reminders'[id].followup_count = reminders[id].followup_count
               /\ \A t \in Times : t >= now => id \in FollowUpQuery(reminders', t)
          /\ ( /\ lastOp.name = "send-due"
               /\ FollowUpThrew(log, id)
               /\ FollowUpScanned(log') )
               => Records(response', id, FollowUpStatuses) # {} ]_vars

\* the second follow-up of reminder 1 threw, 24 hours after its first one
\* was sent at hour 25: the stamp and the count are those of the first
C12_Witness ==
  /\ lastOp.name = "send-due"
  /\ 1 \in DOMAIN reminders
  /\ FollowUpThrew(log, 1)
  /\ response.success
  /\ reminders[1].last_followup_sent = 25
  /\ reminders[1].followup_count = 1

C13_TooEarly ==
  /\ lastOp = Op("send-due", 0, 49)
  /\ 1 \in DOMAIN reminders
  /\ FollowUpScanned(log)
  /\ Calls(log, 1, "followup") = {}
  /\ reminders[1].last_followup_sent = 25
  /\ ~reminders[1].completed

\* ------------------------------------------------------------------------
\* C14 A missing client is a configuration error that changes nothing: a
\*     run without the store client or without the email client answers
\*     "Services not configured", reads no reminder, sends nothing and
\*     changes no row; CreateReminder, CompleteReminder and
\*     RescheduleReminder without the store client answer "Database not
\*     configured" and change nothing.
\* ------------------------------------------------------------------------
C14_ConfigurationError ==
  [][ /\ (RunStep /\ (~supabase \/ ~resend)) =>
           /\ response' = Fail("Services not configured")
           /\ log' = <<>>
           /\ reminders' = reminders
      /\ ( /\ lastOp'.name \in {"create", "complete", "reschedule"}
           /\ now' = now
           /\ ~supabase )
           => /\ response' = Fail("Database not configured")
              /\ log' = <<>>
              /\ reminders' = reminders ]_vars

\* a run was refused for want of the email client while reminder 1 was
\* due and reminder 2 awaited a follow-up
C14_Witness ==
  /\ lastOp.name = "send-due"
  /\ supabase /\ ~resend
  /\ response = Fail("Services not configured")
  /\ log = <<>>
  /\ DOMAIN reminders = {1, 2}
  /\ IsDue(reminders[1], now)
  /\ ~reminders[2].completed
  /\ now = 25

\* a create was refused for want of the store client
C14_CreateRefused ==
  /\ lastOp.name = "create"
  /\ ~supabase
  /\ response = Fail("Database not configured")
  /\ reminders = <<>>

\* ------------------------------------------------------------------------
\* C15 SendEmailNow without the email channel configured fails with
\*     "Resend API key not configured" and sends nothing; configured or
\*     not, it makes no call of the store and changes no row.
\* ------------------------------------------------------------------------
C15_SendEmailNowNeedsChannel ==
  [][ (lastOp'.name = "send-email" /\ now' = now) =>
        /\ reminders' = reminders
        /\ \A i \in 1..Len(log') : log'[i].call = "email_now"
        /\ ~resend =>
             /\ response' = Fail("Resend API key not configured")
             /\ log' = <<>> ]_vars

\* the request was refused while the store held a due reminder
C15_Witness ==
  /\ lastOp.name = "send-email"
  /\ supabase /\ ~resend
  /\ response = Fail("Resend API key not configured")
  /\ 1 \in DOMAIN reminders
  /\ IsDue(reminders[1], now)

\* the request sent its email while the store held a due reminder
C15_Sent ==
  /\ lastOp.name = "send-email"
  /\ response.success
  /\ log = <<Call(0, "email_now", TRUE)>>
  /\ 1 \in DOMAIN reminders
  /\ IsDue(reminders[1], now)

\* ------------------------------------------------------------------------
\* C16 (as claimed) The report of a run has processed equal to the number
\*     of result records, lists the records of the due scan before those
\*     of the follow-up scan, and every record carries the reminder id and
\*     a status that is either sent or failed, with an error exactly when
\*     the status is failed.
\*     Violated: the records of the follow-up scan carry the statuses
\*     followup_sent and followup_failed.
\* ------------------------------------------------------------------------

\* the response is the report of a run
IsReport == lastOp.name = "send-due" /\ response.success

C16_StatusSentOrFailed ==
  IsReport =>
    /\ response.processed = Len(response.results)
    /\ \A i \in 1..Len(response.results) :
         /\ response.results[i].id \in DOMAIN reminders
         /\ response.results[i].status \in {"sent", "failed"}
         /\ response.results[i].error # NoValue
              <=> response.results[i].status = "failed"

\* C16 (amended) The report of a run has processed equal to the number of
\*     result records and lists the records of the due scan before those of
\*     the follow-up scan; every record carries the reminder id and a
\*     status, sent or failed in the due scan and followup_sent or
\*     followup_failed in the follow-up scan, with an error exactly when
\*     the status is failed or followup_failed.
C16_ReportShape ==
  IsReport =>
    /\ response.processed = Len(response.results)
    /\ \A i \in 1..Len(response.results), j \in 1..Len(response.results) :
         ( /\ response.results[i].status \in DueStatuses
           /\ response.results[j].status \in FollowUpStatuses ) => i < j
    /\ \A i \in 1..Len(response.results) :
         /\ response.results[i].id \in DOMAIN reminders
         /\ response.results[i].status \in DueStatuses \cup FollowUpStatuses
         /\ response.results[i].error # NoValue
              <=> response.results[i].status \in {"failed", "followup_failed"}

\* a report of three records: reminder 1 delivered by the due scan, its
\* follow-up failed, the follow-up of reminder 2 sent
C16_Witness ==
  /\ IsReport
  /\ response.processed = 3
  /\ response.results = << Result(1, "sent", NoValue),
                           Result(1, "followup_failed", "email error"),
                           Result(2, "followup_sent", NoValue) >>

\* ------------------------------------------------------------------------
\* C17 If a call of the store fails during a run (the due query, the
\*     follow-up query, the update of sent or the update of the follow-up
\*     tracking), the run stops at that call and answers with a failure,
\*     never with success.
\*     The code reads the error of the due query only: the error of the
\*     follow-up query is logged and the run answers success, and the
\*     results of the two updates are never read.
\* ------------------------------------------------------------------------

StoreCalls == {"due_query", "followup_query", "mark_sent", "followup_update"}

C17_StoreFailureAborts ==
  lastOp.name = "send-due" =>
    \A i \in 1..Len(log) :
      (log[i].call \in StoreCalls /\ ~log[i].ok) =>
        /\ ~response.success
        /\ i = Len(log)

\* ------------------------------------------------------------------------
\* C18 The reminder that a successful CreateReminder returns is the row it
\*     stored, with sent=false, completed=false, last_followup_sent=null
\*     and followup_count=0; its notification_methods is the set the client
\*     gave, or {email} when the client gave none, so that it is not empty
\*     for a reminder created without an explicit choice.
\* ------------------------------------------------------------------------
C18_CreateDefaults ==
  [][ (lastOp'.name = "create" /\ now' = now /\ response'.success) =>
        LET id == Cardinality(DOMAIN reminders) + 1
            given == lastOp'.body.notificationMethods
        IN  /\ DOMAIN reminders' = DOMAIN reminders \cup {id}
            /\ \A other \in DOMAIN reminders : reminders'[other] = reminders[other]
            /\ response'.reminder = reminders'[id]
            /\ response'.reminder.sent = FALSE
            /\ response'.reminder.completed = FALSE
            /\ response'.reminder.last_followup_sent = NoTime
            /\ response'.reminder.followup_count = 0
            /\ given # <<>> => response'.reminder.notification_methods = given[1]
            /\ given = <<>> =>
                 /\ response'.reminder.notification_methods = {"email"}
                 /\ response'.reminder.notification_methods # {} ]_vars

\* a second reminder was created without a choice of methods, after a
\* first one with the choice sms
C18_Witness ==
  /\ lastOp.name = "create"
  /\ lastOp.body.notificationMethods = <<>>
  /\ response.success
  /\ DOMAIN reminders = {1, 2}
  /\ reminders[1].notification_methods = {"sms"}
  /\ response.reminder = reminders[2]
  /\ reminders[2].notification_methods = {"email"}

\* ------------------------------------------------------------------------
\* C19 completed changes only in a CompleteReminder for that reminder, and
\*     only to true: no run (due scan or follow-up scan), no reschedule,
\*     no create and no other operation changes the completed of a stored
\*     reminder, nothing sets it back to false, and a new reminder starts
\*     with completed=false.
\* ------------------------------------------------------------------------
C19_CompletedOnlyByComplete ==
  [][ /\ \A id \in DOMAIN reminders :
           /\ id \in DOMAIN reminders'
           /\ reminders'[id].completed # reminders[id].completed =>
                /\ lastOp'.name = "complete"
                /\ lastOp'.id = id
                /\ reminders'[id].completed = TRUE
      /\ \A id \in DOMAIN reminders' \ DOMAIN reminders :
           reminders'[id].completed = FALSE ]_vars

\* a run delivered the completed reminder 1 and followed up the open
\* reminder 2; 1 is still completed and 2 still open
C19_Witness ==
  /\ lastOp.name = "send-due"
  /\ DOMAIN reminders = {1, 2}
  /\ Records(response, 1, {"sent"}) # {}
  /\ Records(response, 2, {"followup_sent"}) # {}
  /\ reminders[1].completed
  /\ ~reminders[2].completed

\* the completed reminder 1 was rescheduled and is still completed
C19_Rescheduled ==
  /\ lastOp = Op("reschedule", 1, 2)
  /\ response.success
  /\ reminders[1].completed
  /\ reminders[1].scheduled_for = 2

\* ------------------------------------------------------------------------
\* C20 After a request to POST /api/transcribe has ended, on whichever
\*     path (no file, mock transcript without a key, provider success,
\*     provider failure, failure of the rename), uploads/ holds no file of
\*     that request, neither the uploaded one nor the renamed one.
\* ------------------------------------------------------------------------
C20_NoTemporaryFileLeft ==
  \A r \in Uploads :
    transcribing[r].pc = "done" =>
      /\ FilePath(r) \notin uploads
      /\ WebmPath(r) \notin uploads

\* request 1 ended on the failure of its rename, request 2 on the failure
\* of the provider, and request 3 still awaits the provider with its
\* renamed file in uploads/
C20_Witness ==
  /\ openaiKey
  /\ transcribing[1] = [pc |-> "done", file |-> TRUE,
                        renamedPath |-> <<WebmPath(1)>>, status |-> 500]
  /\ transcribing[2].pc = "done" /\ transcribing[2].status = 500
  /\ transcribing[3].pc = "awaiting"
  /\ uploads = {WebmPath(3)}

\* without a key request 1 ended on the mock transcript
C20_Mock ==
  /\ ~openaiKey
  /\ transcribing[1] = [pc |-> "done", file |-> TRUE,
                        renamedPath |-> <<>>, status |-> 200]
  /\ uploads = {}

\* with a key request 1 ended on the provider's transcript
C20_Success ==
  /\ openaiKey
  /\ transcribing[1] = [pc |-> "done", file |-> TRUE,
                        renamedPath |-> <<WebmPath(1)>>, status |-> 200]
  /\ uploads = {}

\* ------------------------------------------------------------------------
\* C21 ExtractTasks answers with an error whenever the answer of the model,
\*     its code fences stripped, cannot be parsed or parses to a value
\*     that is not of the required schema (an object with an array tasks
\*     whose items have the four members of a task, a string emailDraft
\*     and a suggestedSendTime); it answers success only with a value of
\*     that schema.
\*     The code returns whatever JSON.parse returned: nothing looks at the
\*     parsed value.
\* ------------------------------------------------------------------------

\* the required schema
ValidSchema(v) ==
  /\ v.type = "object"
  /\ v.tasks.type = "array"
  /\ \A i \in 1..Len(v.tasks.items) : v.tasks.items[i] = TaskFields
  /\ v.emailDraft = "string"
  /\ v.suggestedSendTime = "string"

C21_ExtractionFailsLoudly ==
  analyzed # <<>> =>
    /\ analyzed[1].success =>
         /\ analyzed[1].analysis # <<>>
         /\ ValidSchema(analyzed[1].analysis[1])
    /\ ~analyzed[1].success =>
         /\ analyzed[1].error # NoValue
         /\ analyzed[1].analysis = <<>>

\* an answer that cannot be parsed is answered with an error
C21_ParseFailure ==
  /\ anthropicKey
  /\ responseText = <<Prose>>
  /\ analyzed = <<Analysis(500, FALSE, "JSON parse error", <<>>)>>

\* ------------------------------------------------------------------------
\* Vocabulary of the properties of overlapping runs
\* ------------------------------------------------------------------------

\* the first-delivery emails sent for reminder id by run r
EmailsBy(r, id) ==
  {i \in Calls(runs[r].log, id, "email") : runs[r].log[i].ok}

\* the follow-up emails sent for reminder id by run r
FollowUpsBy(r, id) ==
  {i \in Calls(runs[r].log, id, "followup") : runs[r].log[i].ok}

\* the follow-up emails sent for reminder id by all runs
RECURSIVE FollowUpsSent(_, _)
FollowUpsSent(rs, id) ==
  IF rs = {} THEN 0
  ELSE LET r == CHOOSE x \in rs : TRUE
       IN  Cardinality(FollowUpsBy(r, id)) + FollowUpsSent(rs \ {r}, id)

\* ------------------------------------------------------------------------
\* C22 For every reminder followup_count equals the number of follow-up
\*     emails sent for it since its creation, also when two runs overlap.
\*     The count is written as the count the follow-up query read plus
\*     one: two runs that read the same count write the same number, and
\*     an update that comes back with an error is not noticed.
\*     The property is stated for the runs whose tracking updates all
\*     succeeded, and is violated by the overlap alone.
\* ------------------------------------------------------------------------

\* no update of run r came back with an error
UpdatesSucceeded(r) ==
  \A i \in 1..Len(runs[r].log) :
    runs[r].log[i].call \in {"mark_sent", "followup_update"} => runs[r].log[i].ok

C22_FollowUpCountExact ==
  (\A r \in Runs : UpdatesSucceeded(r)) =>
    \A id \in DOMAIN reminders :
      reminders[id].followup_count = FollowUpsSent(Runs, id)

\* ------------------------------------------------------------------------
\* C23 When two runs overlap, both can select the same unsent due reminder
\*     and both deliver it: a run that read a reminder in its due query
\*     makes its pass for it whatever the table says by then, also when
\*     the other run has marked it sent in between; it sends the messages
\*     of the row it read and reports a record for it.
\* ------------------------------------------------------------------------
C23_PassIgnoresStoredSent ==
  [][ \A r \in Runs :
        ( /\ runs[r].pc = "due"
          /\ runs[r].todo # <<>>
          /\ runs'[r].todo = Tail(runs[r].todo) )
          => LET id == Head(runs[r].todo)
             IN  /\ Cardinality(Records([results |-> runs'[r].results], id, DueStatuses))
                      = Cardinality(Records([results |-> runs[r].results], id, DueStatuses)) + 1
                 /\ SendsEmail(runs[r].rows[id]) =>
                      Cardinality(Calls(runs'[r].log, id, "email"))
                        = Cardinality(Calls(runs[r].log, id, "email")) + 1 ]_vars

\* both runs have sent the first-delivery email of reminder 1 and report
\* it as sent
C23_Witness ==
  /\ \A r \in Runs :
       /\ runs[r].pc = "done"
       /\ EmailsBy(r, 1) # {}
       /\ Records([results |-> runs[r].results], 1, {"sent"}) # {}
  /\ reminders[1].sent
  /\ reminders[1].scheduled_for = 1

\* two follow-up emails were sent for reminder 1 and its count is 1
C22_LostIncrement ==
  /\ \A r \in Runs : runs[r].pc = "done" /\ UpdatesSucceeded(r)
  /\ FollowUpsSent(Runs, 1) = 2
  /\ reminders[1].followup_count = 1

\* ------------------------------------------------------------------------
\* C24 (as claimed) A reminder never receives its first delivery and a
\*     follow-up within the same run.
\*     Violated: the follow-up query runs after the due loop has marked the
\*     reminder sent, and it measures the 24 hours from scheduled_for.
\* ------------------------------------------------------------------------
C24_NoFollowUpInDeliveringRun ==
  lastOp.name = "send-due" =>
    \A id \in DOMAIN reminders :
      ~ ( /\ Records(response, id, {"sent"}) # {}
          /\ Records(response, id, FollowUpStatuses) # {} )

\* C24 (amended) A follow-up is sent no earlier than 24 hours after the
\*     scheduled_for of the reminder; a reminder that a run delivers for
\*     the first time gets a follow-up in that same run exactly when its
\*     scheduled_for is 24 hours or more in the past, it is not completed
\*     and the update of sent succeeded.
C24_FollowUpAfterScheduledFor ==
  [][ (RunStep /\ FollowUpScanned(log')) =>
        \A id \in DOMAIN reminders :
          /\ Records(response', id, FollowUpStatuses) # {}
               => reminders[id].scheduled_for <= now - 24
          /\ Records(response', id, {"sent"}) # {} =>
               ( Records(response', id, FollowUpStatuses) # {}
                   <=> /\ \E i \in Calls(log', id, "mark_sent") : log'[i].ok
                       /\ ~reminders[id].completed
                       /\ reminders[id].scheduled_for <= now - 24 ) ]_vars

\* the run at hour 26 delivered reminder 1, scheduled for hour 1, and
\* followed it up
C24_Witness ==
  /\ lastOp = Op("send-due", 0, 26)
  /\ response.results = << Result(1, "sent", NoValue),
                           Result(1, "followup_sent", NoValue) >>
  /\ reminders[1].scheduled_for = 1
  /\ reminders[1].last_followup_sent = 26
  /\ reminders[1].followup_count = 1

\* the run at hour 25 delivered reminder 1, rescheduled for hour 2, and
\* did not follow it up
C24_NotYet ==
  /\ lastOp = Op("send-due", 0, 25)
  /\ FollowUpScanned(log)
  /\ response.results = << Result(1, "sent", NoValue) >>
  /\ reminders[1].scheduled_for = 2
  /\ reminders[1].sent

\* ------------------------------------------------------------------------
\* C25 (as claimed) When a due reminder selects both email and sms and its
\*     email send fails while the SMS send would succeed, the due scan
\*     still sets sent=true and reports the reminder as sent.
\*     Violated: the throw of the email send ends the pass in the catch.
\* ------------------------------------------------------------------------

\* the send of kind c for reminder id threw in the run logged in l
SendThrew(l, id, c) == \E i \in Calls(l, id, c) : ~l[i].ok

C25_PartialFailureMarksSent ==
  [][ (RunStep /\ Scanned(log')) =>
        \A id \in DOMAIN reminders :
          ( /\ IsDue(reminders[id], now)
            /\ SendsEmail(reminders[id]) /\ SendsSms(reminders[id])
            /\ SendThrew(log', id, "email") )
            => /\ reminders'[id].sent
               /\ Records(response', id, {"sent"}) # {} ]_vars

\* C25 (amended) When a send of a due reminder throws, the email send or,
\*     after the email was sent, the SMS send, the due scan leaves
\*     sent=false and reports the reminder as failed with the error; after
\*     a throw of the email send the SMS is not attempted.  A reminder is
\*     reported as sent only when none of its sends threw.
C25_AnyThrowLeavesUnsent ==
  [][ (RunStep /\ Scanned(log')) =>
        \A id \in DOMAIN reminders :
          IsDue(reminders[id], now) =>
            /\ SendThrew(log', id, "email") =>
                 /\ Calls(log', id, "sms") = {}
                 /\ Calls(log', id, "mark_sent") = {}
            /\ (SendThrew(log', id, "email") \/ SendThrew(log', id, "sms")) =>
                 /\ reminders'[id].sent = FALSE
                 /\ Records(response', id, {"sent"}) = {}
                 /\ \E i \in Records(response', id, {"failed"}) :
                      response'.results[i].error # NoValue
            /\ Records(response', id, {"sent"}) # {} =>
                 ~ (SendThrew(log', id, "email") \/ SendThrew(log', id, "sms")) ]_vars

\* reminder 1 selects both channels, its email send threw: no SMS, no
\* update, failed, still unsent
C25_Witness ==
  /\ lastOp.name = "send-due"
  /\ twilioClient
  /\ 1 \in DOMAIN reminders
  /\ reminders[1].notification_methods = {"email", "sms"}
  /\ log = << Call(0, "due_query", TRUE), Call(1, "email", FALSE),
              Call(0, "followup_query", TRUE) >>
  /\ response.results = << Result(1, "failed", "email error") >>
  /\ ~reminders[1].sent

\* ------------------------------------------------------------------------
\* C26 For each reminder selected by the due scan, the email send is
\*     called exactly when email is in notification_methods and the email
\*     address is set; the SMS send is called exactly when sms is in
\*     notification_methods, phone_number is set, the Twilio client exists
\*     and the email step did not throw; the email send comes before the
\*     SMS send, and each is called at most once.
\* ------------------------------------------------------------------------
C26_ChannelDispatch ==
  [][ (RunStep /\ Scanned(log')) =>
        \A id \in DOMAIN reminders :
          IsDue(reminders[id], now) =>
            /\ Calls(log', id, "email") # {}
                 <=> /\ "email" \in reminders[id].notification_methods
                     /\ reminders[id].email # NoValue
            /\ Calls(log', id, "sms") # {}
                 <=> /\ "sms" \in reminders[id].notification_methods
                     /\ reminders[id].phone_number # NoValue
                     /\ twilioClient
                     /\ ~SendThrew(log', id, "email")
            /\ Cardinality(Calls(log', id, "email")) <= 1
            /\ Cardinality(Calls(log', id, "sms")) <= 1
            /\ \A i \in Calls(log', id, "email"), j \in Calls(log', id, "sms") : i < j ]_vars

\* both sends were called for a reminder with both channels, the email
\* first
C26_Witness ==
  /\ lastOp.name = "send-due"
  /\ twilioClient
  /\ reminders[1].notification_methods = {"email", "sms"}
  /\ reminders[1].email # NoValue
  /\ reminders[1].phone_number # NoValue
  /\ log = << Call(0, "due_query", TRUE), Call(1, "email", TRUE),
              Call(1, "sms", TRUE), Call(1, "mark_sent", TRUE),
              Call(0, "followup_query", TRUE) >>

\* no send was called for a reminder that selects sms and has no phone
\* number
C26_NoPhone ==
  /\ lastOp.name = "send-due"
  /\ twilioClient
  /\ reminders[1].notification_methods = {"sms"}
  /\ reminders[1].phone_number = NoValue
  /\ log = << Call(0, "due_query", TRUE), Call(1, "mark_sent", TRUE),
              Call(0, "followup_query", TRUE) >>

\* nor for one that selects email and sms while it has no email address
\* and the Twilio client is missing
C26_NoAddressNoClient ==
  /\ lastOp.name = "send-due"
  /\ ~twilioClient
  /\ reminders[1].notification_methods = {"email", "sms"}
  /\ reminders[1].email = NoValue
  /\ reminders[1].phone_number # NoValue
  /\ Calls(log, 1, "email") = {} /\ Calls(log, 1, "sms") = {}
  /\ Calls(log, 1, "mark_sent") # {}

\* ------------------------------------------------------------------------
\* C27 The follow-up scan never calls the SMS send: for every reminder it
\*     selected it calls the email send once, whatever the
\*     notification_methods of the reminder, also when they are sms only,
\*     and after the follow-up query the run makes no other call than the
\*     follow-up emails and their tracking updates.
\* ------------------------------------------------------------------------

\* the position of the follow-up query in the log l
FollowUpQueryAt(l) == CHOOSE i \in 1..Len(l) : l[i].call = "followup_query"

C27_FollowUpByEmailOnly ==
  [][ (RunStep /\ FollowUpScanned(log')) =>
        /\ \A i \in 1..Len(log') :
             i > FollowUpQueryAt(log') =>
               log'[i].call \in {"followup", "followup_update"}
        /\ \A id \in DOMAIN reminders :
             Records(response', id, FollowUpStatuses) # {} =>
               Cardinality(Calls(log', id, "followup")) = 1 ]_vars

\* the follow-up of a reminder that selects sms only was sent by email,
\* with the Twilio client at hand
C27_Witness ==
  /\ lastOp = Op("send-due", 0, 49)
  /\ twilioClient
  /\ reminders[1].notification_methods = {"sms"}
  /\ reminders[1].phone_number # NoValue
  /\ log = << Call(0, "due_query", TRUE), Call(0, "followup_query", TRUE),
              Call(1, "followup", TRUE), Call(1, "followup_update", TRUE) >>

\* ------------------------------------------------------------------------
\* C28 A run at the same hour, right after a run in which every query,
\*     every send and every update succeeded, selects no reminder in
\*     either scan: it sends nothing, reports no record and changes no row.
\* ------------------------------------------------------------------------

\* the last request was a run at this hour in which everything succeeded
RunSucceeded ==
  /\ lastOp = Op("send-due", 0, now)
  /\ response.success
  /\ FollowUpScanned(log)
  /\ \A i \in 1..Len(log) : log[i].ok

C28_SecondRunDoesNothing ==
  [][ (RunSucceeded /\ RunStep) =>
        /\ reminders' = reminders
        /\ \A i \in 1..Len(log') : log'[i].id = 0
        /\ response'.success => response'.results = <<>> ]_vars

\* a run at hour 25 found nothing to do: reminder 1 was delivered and
\* reminder 2 followed up by a run at this same hour
C28_Witness ==
  /\ RunSucceeded
  /\ now = 25
  /\ log = << Call(0, "due_query", TRUE), Call(0, "followup_query", TRUE) >>
  /\ response.results = <<>>
  /\ DOMAIN reminders = {1, 2}
  /\ reminders[1].sent /\ reminders[1].scheduled_for = 2
  /\ reminders[2].last_followup_sent = 25

\* ------------------------------------------------------------------------
\* C30 In every state, for every reminder, last_followup_sent is null
\*     exactly when followup_count is 0.
\* ------------------------------------------------------------------------
C30_StampIffCounted ==
  \A id \in DOMAIN reminders :
    reminders[id].last_followup_sent = NoTime <=> reminders[id].followup_count = 0

\* reminder 1 has had two follow-ups
C30_Witness ==
  /\ 1 \in DOMAIN reminders
  /\ reminders[1].followup_count = 2
  /\ reminders[1].last_followup_sent = 50

\* at hour 50 reminder 1 was rescheduled: stamp and count are cleared
C30_Cleared ==
  /\ lastOp = Op("reschedule", 1, 2)
  /\ response.success
  /\ now = 50
  /\ reminders[1].followup_count = 0
  /\ reminders[1].last_followup_sent = NoTime

\* ------------------------------------------------------------------------
\* C29 Retry by rescan delivers in the end: if runs keep being taken and
\*     the sends and the update for a reminder stop failing, that is, a
\*     run in which no call for that reminder fails is taken whenever it
\*     stays possible, then a reminder that is unsent and due, with the
\*     store and the email client configured, is later stored as sent or
\*     rescheduled to a later hour.  Nothing is assumed about the other
\*     reminders: their deliveries may fail in every run.
\* ------------------------------------------------------------------------

\* the request handled last is a run taken at the present hour in which
\* the queries succeeded and no call for reminder id failed
Delivers(id) ==
  /\ lastOp.name = "send-due"
  /\ lastOp.t = now
  /\ response.success
  /\ \A i \in 1..Len(log) : log[i].id \in {0, id} => log[i].ok

\* reminder id is unsent and due, and the run is not refused
AwaitsDelivery(id) ==
  /\ ServicesConfigured
  /\ id \in DOMAIN reminders
  /\ IsDue(reminders[id], now)

\* reminder id is stored as sent, or is scheduled for a later hour
DeliveredOrPostponed(id) ==
  /\ id \in DOMAIN reminders
  /\ reminders[id].sent \/ reminders[id].scheduled_for > now

C29_EventualDelivery ==
  \A id \in 1..MaxReminders :
    []<>Delivers(id) => (AwaitsDelivery(id) ~> DeliveredOrPostponed(id))

\* reminder 2 was delivered by a run in which no call for it failed while
\* the delivery of reminder 1 failed
C29_Witness ==
  /\ Delivers(2)
  /\ DOMAIN reminders = {1, 2}
  /\ response.results = << Result(1, "failed", "email error"),
                           Result(2, "sent", NoValue) >>
  /\ ~reminders[1].sent
  /\ reminders[2].sent

\* ------------------------------------------------------------------------
\* C33 When a due reminder selects both channels and its email send
\*     succeeds but its SMS send throws, the run leaves sent=false and
\*     reports the reminder as failed with the error, so the reminder stays
\*     due at every later hour; and the next run, with nothing but the
\*     clock between the two, sends the email of that reminder again.  The
\*     runs are those of Spec: they never overlap.
\* ------------------------------------------------------------------------

\* in the run logged in l the email of reminder id was sent and its SMS
\* send threw
EmailSentSmsThrew(l, id) ==
  /\ \E i \in Calls(l, id, "email") : l[i].ok
  /\ SendThrew(l, id, "sms")

C33_SmsThrowResendsEmail ==
  [][ RunStep =>
        \A id \in DOMAIN reminders :
          /\ (IsDue(reminders[id], now) /\ EmailSentSmsThrew(log', id)) =>
               /\ response'.success
               /\ reminders'[id].sent = FALSE
               /\ Calls(log', id, "mark_sent") = {}
               /\ Records(response', id, {"sent"}) = {}
               /\ \E i \in Records(response', id, {"failed"}) :
                    response'.results[i].error # NoValue
               /\ \A t \in Times : t >= now => IsDue(reminders'[id], t)
          /\ ( /\ lastOp.name = "send-due"
               /\ EmailSentSmsThrew(log, id)
               /\ Scanned(log') )
               => /\ Calls(log', id, "email") # {}
                  /\ Records(response', id, DueStatuses) # {} ]_vars

\* the email of reminder 1 was sent and its SMS send threw, in a run at
\* hour 25 or later of a reminder scheduled for hour 1 that selects both
\* channels: it is still unsent
C33_Witness ==
  /\ lastOp.name = "send-due" /\ lastOp.t >= 25 /\ lastOp.t = now
  /\ 1 \in DOMAIN reminders
  /\ reminders[1].scheduled_for = 1
  /\ reminders[1].notification_methods = {"email", "sms"}
  /\ EmailSentSmsThrew(log, 1)
  /\ ~reminders[1].sent
  /\ Records(response, 1, {"failed"}) # {}

\* ------------------------------------------------------------------------
\* C32 A due reminder for which no channel applies (its methods are the
\*     empty list; or they hold email and the address is missing, and they
\*     hold sms and the phone number or the Twilio client is missing, or
\*     they lack the other one) gets no send call from the due scan and no
\*     failure: the scan calls the update of `sent` for it and reports it
\*     with status sent, once.  When that update succeeds the row is
\*     stored with sent=true and is due at no later hour, and a run that
\*     follows gives it no first delivery pass.
\* ------------------------------------------------------------------------

\* no channel guard of the due loop lets the row through
NoChannelApplies(row) ==
  /\ ~ ("email" \in row.notification_methods /\ row.email # NoValue)
  /\ ~ ( /\ "sms" \in row.notification_methods
         /\ row.phone_number # NoValue
         /\ twilioClient )

\* the run logged in l and answered by resp reported reminder id as sent
\* and called no send for it
SentWithoutMessage(l, resp, id) ==
  /\ Records(resp, id, {"sent"}) # {}
  /\ Calls(l, id, "email") = {}
  /\ Calls(l, id, "sms") = {}

C32_NoChannelMarkedSent ==
  [][ (RunStep /\ Scanned(log')) =>
        \A id \in DOMAIN reminders :
          /\ (IsDue(reminders[id], now) /\ NoChannelApplies(reminders[id])) =>
               /\ SentWithoutMessage(log', response', id)
               /\ Cardinality(Records(response', id, {"sent"})) = 1
               /\ Records(response', id, {"failed"}) = {}
               /\ Cardinality(Calls(log', id, "mark_sent")) = 1
               /\ (\A i \in Calls(log', id, "mark_sent") : log'[i].ok) =>
                    /\ reminders'[id].sent
                    /\ \A t \in Times : ~IsDue(reminders'[id], t)
          /\ ( /\ lastOp.name = "send-due"
               /\ SentWithoutMessage(log, response, id)
               /\ reminders[id].sent )
               => /\ Records(response', id, DueStatuses) = {}
                  /\ Calls(log', id, "mark_sent") = {} ]_vars

\* a reminder with an empty list of methods, an address and a phone number
\* was stored as sent by a run that called no send, with both clients
\* configured
C32_Witness ==
  /\ lastOp.name = "send-due"
  /\ resend /\ twilioClient
  /\ reminders[1].notification_methods = {}
  /\ reminders[1].email # NoValue
  /\ reminders[1].phone_number # NoValue
  /\ reminders[1].sent
  /\ response.results = <<Result(1, "sent", NoValue)>>
  /\ log = << Call(0, "due_query", TRUE), Call(1, "mark_sent", TRUE),
              Call(0, "followup_query", TRUE) >>

\* so was one that selects sms while the Twilio client is missing
C32_NoSmsChannel ==
  /\ lastOp.name = "send-due"
  /\ ~twilioClient
  /\ reminders[1].notification_methods = {"sms"}
  /\ reminders[1].phone_number # NoValue
  /\ reminders[1].sent
  /\ SentWithoutMessage(log, response, 1)

\* and one that selects email and has no address
C32_NoAddress ==
  /\ lastOp.name = "send-due"
  /\ reminders[1].notification_methods = {"email"}
  /\ reminders[1].email = NoValue
  /\ reminders[1].sent
  /\ SentWithoutMessage(log, response, 1)

\* ------------------------------------------------------------------------
\* C31 When a reschedule of reminder id is applied between the query of a
\*     run that returned the reminder and the update that run writes for
\*     it, the update overrides the reschedule.  Due scan: the row keeps
\*     the new scheduled_for and is stored with sent=true, so it is due at
\*     no hour and gets no first delivery at the new time.  Follow-up
\*     scan: the row keeps the new scheduled_for and sent=false of the
\*     reschedule and is stored with last_followup_sent set to the hour of
\*     the run and followup_count one above the count the query returned.
\* ------------------------------------------------------------------------

\* run r is about to handle reminder id in its loop `scan`, and the stored
\* row was rescheduled after the query of the run returned it
RescheduledSinceRead(r, scan, id) ==
  /\ runs[r].pc = scan
  /\ runs[r].todo # <<>>
  /\ id = Head(runs[r].todo)
  /\ reminders[id].scheduled_for # runs[r].rows[id].scheduled_for
  /\ reminders[id].sent = FALSE
  /\ reminders[id].last_followup_sent = NoTime
  /\ reminders[id].followup_count = 0

\* run r has just written its update for reminder id, without an error
Wrote(r, id, update) ==
  /\ runs'[r].todo = Tail(runs[r].todo)
  /\ runs'[r].log = Append(SubSeq(runs'[r].log, 1, Len(runs'[r].log) - 1),
                           Call(id, update, TRUE))
  /\ Len(runs'[r].log) > Len(runs[r].log)

C31_RunOverridesReschedule ==
  [][ \A r \in Runs, id \in DOMAIN reminders :
        /\ (RescheduledSinceRead(r, "due", id) /\ Wrote(r, id, "mark_sent")) =>
             /\ reminders'[id].sent = TRUE
             /\ reminders'[id].scheduled_for = reminders[id].scheduled_for
             /\ Records([results |-> runs'[r].results], id, {"sent"}) # {}
             /\ \A t \in Times : id \notin DueQuery(reminders', t)
        /\ (RescheduledSinceRead(r, "followup", id) /\ Wrote(r, id, "followup_update")) =>
             /\ reminders'[id].last_followup_sent = runs[r].t
             /\ reminders'[id].followup_count = runs[r].rows[id].followup_count + 1
             /\ reminders'[id].followup_count > 0
             /\ reminders'[id].sent = FALSE
             /\ reminders'[id].scheduled_for = reminders[id].scheduled_for ]_vars

\* reminder 1 was due at hour 1 when a run read it, was rescheduled to
\* hour 2, and is stored as sent by that run, for hour 2
C31_Witness ==
  /\ now = 1
  /\ lastOp = Op("reschedule", 1, 2) /\ response.success
  /\ reminders[1].scheduled_for = 2
  /\ reminders[1].sent
  /\ \E r \in Runs :
       /\ runs[r].pc = "due"
       /\ runs[r].rows[1].scheduled_for = 1
       /\ Records([results |-> runs[r].results], 1, {"sent"}) # {}
       /\ runs[(CHOOSE o \in Runs : o # r)].pc = "idle"

\* reminder 1 awaited a follow-up at hour 25 when a run read it, was
\* rescheduled to hour 2, and is stored unsent, with the follow-up of that
\* run stamped and counted
C31_FollowUpCase ==
  /\ now = 25
  /\ lastOp = Op("reschedule", 1, 2) /\ response.success
  /\ reminders[1].scheduled_for = 2
  /\ ~reminders[1].sent
  /\ reminders[1].last_followup_sent = 25
  /\ reminders[1].followup_count = 1
  /\ \E r \in Runs :
       /\ runs[r].pc = "followup"
       /\ Records([results |-> runs[r].results], 1, {"followup_sent"}) # {}
       /\ runs[(CHOOSE o \in Runs : o # r)].pc = "idle"

=============================================================================
